---- MODULE Spec2Model ----
(***************************************************************************)
(* PERT estimator (it-tools, src/tools/pert-estimator): the estimation     *)
(* service (time conversion, validation, PERT calculation, task factory,   *)
(* project summary, CSV/JSON import) and the task collection of the        *)
(* estimator component.                                                    *)
(*                                                                         *)
(* Numbers are exact: a JavaScript number is modelled as a rational n/d    *)
(* (kind "rat"), as NaN (kind "nan", what parseFloat gives for text that   *)
(* is no number) or as the square root of a non-square rational (kind      *)
(* "sqrt", what Math.sqrt gives there).  Floating-point rounding and the   *)
(* infinities are outside the model.                                       *)
(***************************************************************************)
EXTENDS Integers, Sequences, FiniteSets, TLC

VARIABLES
    mode,        \* which entry point of the service the run exercises
    estimate,    \* the TaskEstimate handed to validateEstimate/calculatePert/createTask
    ret,         \* what the last call returned (or that it threw)
    csvContent,  \* the text handed to importFromCSV, as its lines
    jsonContent, \* the text handed to importFromJSON
    tasks,       \* the component's task collection (tasks.value)
    uuid,        \* number of identifiers crypto.randomUUID() has handed out
    now,         \* the clock that new Date() reads
    projectName,          \* projectName.value of the component
    importError,          \* importError.value
    importSuccess,        \* importSuccess.value
    projectImportError,   \* projectImportError.value
    projectImportSuccess, \* projectImportSuccess.value
    localStorage,         \* the projects stored under PROJECTS_STORAGE_KEY
    savedProjects,        \* savedProjects.value
    currentProjectId      \* currentProjectId.value

\* the import messages of the component
importVars == <<importError, importSuccess, projectImportError, projectImportSuccess>>

\* the project state of the component and the store behind it
projectVars == <<projectName, localStorage, savedProjects, currentProjectId>>

vars == <<mode, estimate, ret, csvContent, jsonContent, tasks, uuid, now, importVars, projectVars>>

----------------------------------------------------------------------------
(* Bounds                                                                  *)

MaxLines == 4   \* lines of a CSV text
MaxItems == 3   \* items of a JSON task array
MaxTasks == 2   \* tasks in the task collection
MaxUuid == 3    \* identifiers generated in one session of the component
MaxClock == 1   \* readings of the clock
MaxProjects == 2   \* projects in the store
MaxProjectUuid == 2   \* identifiers generated in one session with the saved projects

----------------------------------------------------------------------------
(* Numbers                                                                 *)

Abs(i) == IF i < 0 THEN -i ELSE i

RECURSIVE GCD(_, _)
GCD(a, b) == IF b = 0 THEN a ELSE GCD(b, a % b)

\* the rational n/d in lowest terms with a positive denominator (d # 0)
Rat(n, d) ==
    LET g == GCD(Abs(n), Abs(d))
        s == IF d < 0 THEN -1 ELSE 1
    IN  [k |-> "rat", n |-> (s * n) \div g, d |-> (s * d) \div g]

Num(i) == Rat(i, 1)
NaN == [k |-> "nan", n |-> 0, d |-> 1]
IsNaN(x) == x.k = "nan"

Add(a, b) == IF IsNaN(a) \/ IsNaN(b) THEN NaN ELSE Rat(a.n * b.d + b.n * a.d, a.d * b.d)
Sub(a, b) == IF IsNaN(a) \/ IsNaN(b) THEN NaN ELSE Rat(a.n * b.d - b.n * a.d, a.d * b.d)
Mul(a, b) == IF IsNaN(a) \/ IsNaN(b) THEN NaN ELSE Rat(a.n * b.n, a.d * b.d)
\* only ever used with a non-zero divisor (a unit factor, or 6)
Div(a, b) == IF IsNaN(a) \/ IsNaN(b) \/ b.n = 0 THEN NaN ELSE Rat(a.n * b.d, a.d * b.n)

\* comparisons: every comparison with NaN is false
Gt(a, b) == ~IsNaN(a) /\ ~IsNaN(b) /\ a.n * b.d > b.n * a.d
Le(a, b) == ~IsNaN(a) /\ ~IsNaN(b) /\ a.n * b.d <= b.n * a.d

RECURSIVE ISqrt(_, _)
\* largest r >= from with r * r <= i
ISqrt(i, from) == IF (from + 1) * (from + 1) > i THEN from ELSE ISqrt(i, from + 1)

IsSquare(i) == ISqrt(i, 0) * ISqrt(i, 0) = i

\* Math.sqrt of a non-negative rational: exact when the root is rational,
\* otherwise the irrational root is kept as the number it is the root of
Sqrt(x) ==
    IF IsNaN(x) \/ x.n < 0 THEN NaN
    ELSE IF IsSquare(x.n) /\ IsSquare(x.d) THEN Rat(ISqrt(x.n, 0), ISqrt(x.d, 0))
    ELSE [k |-> "sqrt", n |-> x.n, d |-> x.d]

----------------------------------------------------------------------------
(* Optional values: undefined, or a value                                  *)

Undefined == [some |-> FALSE, v |-> ""]
Some(s) == [some |-> TRUE, v |-> s]
\* JavaScript truthiness of an optional string: undefined and '' are falsy
Truthy(o) == o.some /\ o.v # ""

----------------------------------------------------------------------------
(* Time conversion and the PERT calculation                                *)

TimeUnit == {"minutes", "hours", "days", "weeks"}

TIME_UNIT_TO_HOURS ==
    [minutes |-> Div(Num(1), Num(60)), hours |-> Num(1), days |-> Num(8), weeks |-> Num(40)]

convertToHours(timeValue) == Mul(timeValue.value, TIME_UNIT_TO_HOURS[timeValue.unit])

convertFromHours(hours, targetUnit) == Div(hours, TIME_UNIT_TO_HOURS[targetUnit])

\* the check of validateEstimate on the three values in hours
ValidHours(optimisticHours, nominalHours, pessimisticHours) ==
    /\ Gt(optimisticHours, Num(0))
    /\ Gt(nominalHours, Num(0))
    /\ Gt(pessimisticHours, Num(0))
    /\ Le(optimisticHours, nominalHours)
    /\ Le(nominalHours, pessimisticHours)

ZeroAllowedHours(optimisticHours, nominalHours, pessimisticHours) ==
    /\ Le(Num(0), optimisticHours)
    /\ Le(optimisticHours, nominalHours)
    /\ Le(nominalHours, pessimisticHours)

validateEstimate_RawValues(e) ==
    ValidHours(e.optimistic.value, e.nominal.value, e.pessimistic.value)

validateEstimate_ZeroAllowed(e) ==
    ZeroAllowedHours(convertToHours(e.optimistic), convertToHours(e.nominal),
                     convertToHours(e.pessimistic))

validateEstimate(e) ==
    ValidHours(convertToHours(e.optimistic), convertToHours(e.nominal),
               convertToHours(e.pessimistic))

\* the result record of calculatePert; variance = standardDeviation * standardDeviation
PertResult(expectedDuration, standardDeviation) ==
    [thrown |-> FALSE,
     expectedDuration |-> expectedDuration,
     standardDeviation |-> standardDeviation,
     variance |-> Mul(standardDeviation, standardDeviation)]

PertFromHours_SpreadFromNominal(optimisticHours, nominalHours, pessimisticHours) ==
    PertResult(
        Div(Add(Add(optimisticHours, Mul(Num(4), nominalHours)), pessimisticHours), Num(6)),
        Div(Sub(pessimisticHours, nominalHours), Num(6)))

\* the numbers calculatePert derives from the three values in hours:
\* (O + 4N + P) / 6 and (P - O) / 6
PertFromHours(optimisticHours, nominalHours, pessimisticHours) ==
    PertResult(
        Div(Add(Add(optimisticHours, Mul(Num(4), nominalHours)), pessimisticHours), Num(6)),
        Div(Sub(pessimisticHours, optimisticHours), Num(6)))

\* calculatePert once the estimate has passed validation
PertNumbers(e) ==
    PertFromHours(convertToHours(e.optimistic), convertToHours(e.nominal),
                  convertToHours(e.pessimistic))

InvalidEstimateError ==
    [thrown |-> TRUE,
     error |-> "Invalid estimate: optimistic <= nominal <= pessimistic and all values > 0"]

calculatePert_Unguarded(e) == PertNumbers(e)

calculatePert(e) ==
    IF ~validateEstimate(e) THEN InvalidEstimateError ELSE PertNumbers(e)

\* identifiers are strings: one supplied by the caller, or the k-th value of
\* crypto.randomUUID(), which differs from every value it gave before
GivenId(s) == s
randomUUID(k) == "uuid-" \o ToString(k)

\* the Task createTask assembles from the calculation, or the exception of
\* calculatePert
TaskFrom(calculation, name, e, id, u) ==
    IF calculation.thrown THEN calculation
    ELSE [thrown |-> FALSE,
          task |-> [id |-> IF Truthy(id) THEN GivenId(id.v) ELSE randomUUID(u + 1),
                    name |-> name,
                    estimate |-> e,
                    expectedDuration |-> calculation.expectedDuration,
                    standardDeviation |-> calculation.standardDeviation,
                    variance |-> calculation.variance]]

\* createTask(name, estimate, id); u is the number of identifiers generated so far
createTask(name, e, id, u) == TaskFrom(calculatePert(e), name, e, id, u)

\* how many identifiers createTask(.., id) takes from crypto.randomUUID()
UuidsUsed(result, id) == IF ~result.thrown /\ ~Truthy(id) THEN 1 ELSE 0

----------------------------------------------------------------------------
(* Project summary                                                         *)

RECURSIVE Reduce(_, _, _, _)
\* tasks.reduce((sum, task) => sum + task[field], 0), a left fold from index i
Reduce(ts, field, i, sum) ==
    IF i > Len(ts) THEN sum ELSE Reduce(ts, field, i + 1, Add(sum, ts[i][field]))

EmptySummary ==
    [totalExpectedDuration |-> Num(0), totalStandardDeviation |-> Num(0),
     totalVariance |-> Num(0), tasks |-> <<>>]

\* the summary of a non-empty collection from its two sums
SummaryFrom(totalExpectedDuration, totalVariance, ts) ==
    [totalExpectedDuration |-> totalExpectedDuration,
     totalStandardDeviation |-> Sqrt(totalVariance),
     totalVariance |-> totalVariance,
     tasks |-> ts]

calculateProjectSummary_SumOfDeviations(ts) ==
    IF Len(ts) = 0 THEN EmptySummary
    ELSE [totalExpectedDuration |-> Reduce(ts, "expectedDuration", 1, Num(0)),
          totalStandardDeviation |-> Reduce(ts, "standardDeviation", 1, Num(0)),
          totalVariance |-> Reduce(ts, "variance", 1, Num(0)),
          tasks |-> ts]

calculateProjectSummary(ts) ==
    IF Len(ts) = 0 THEN EmptySummary
    ELSE SummaryFrom(Reduce(ts, "expectedDuration", 1, Num(0)),
                     Reduce(ts, "variance", 1, Num(0)), ts)

----------------------------------------------------------------------------
(* CSV text                                                                *)
(*                                                                         *)
(* A CSV text is the sequence of its lines and a line is the sequence of   *)
(* its cells, each cell written between double quotes as exportToCSV       *)
(* writes it; <<>> is a blank line.  The cells are drawn from a small      *)
(* vocabulary without quotes, commas or line breaks, so the tokenizer      *)
(* /(".*?"|[^",\s]+)(?=\s*,|\s*$)/g followed by the removal of the quotes  *)
(* gives back exactly the cells.                                           *)

BlankLine == <<>>

HeaderLine ==
    <<"Task Name", "Optimistic Value", "Optimistic Unit", "Nominal Value", "Nominal Unit",
      "Pessimistic Value", "Pessimistic Unit", "Expected Duration (hours)",
      "Standard Deviation (hours)">>

\* "Project: Alpha" is what exportToCSV writes for the project Alpha;
\* "Project:" starts like it but has no name for /^"Project:\s*(.+)"$/ to capture
ProjectLine == <<"Project: Alpha">>
NamelessProjectLine == <<"Project:">>

\* line.startsWith('"Project:')
StartsWithProject(line) == Len(line) > 0 /\ line[1] \in {"Project: Alpha", "Project:"}

\* line.match(/^"Project:\s*(.+)"$/): the captured name, or Undefined for no match
ProjectMatch(line) == IF line = ProjectLine THEN Some("Alpha") ELSE Undefined

\* line.includes('Task Name')
IncludesTaskName(line) == \E i \in 1..Len(line) : line[i] \in {"Task Name", "Task Name review"}

\* the tokens of a line with their quotes removed and trimmed
CleanValues(line) == line

\* parseFloat on the number texts of the vocabulary; NaN for any other text
NumberTexts ==
    { <<"-1", Num(-1)>>, <<"0", Num(0)>>, <<"0.5", Rat(1, 2)>>, <<"1", Num(1)>>,
      <<"2", Num(2)>>, <<"3", Num(3)>>, <<"4", Num(4)>>, <<"5", Num(5)>>, <<"8", Num(8)>>,
      <<"12", Num(12)>>, <<"60", Num(60)>> }

parseFloat(text) ==
    IF \E p \in NumberTexts : p[1] = text
    THEN (CHOOSE p \in NumberTexts : p[1] = text)[2]
    ELSE NaN

\* csvContent.trim().split('\n'): blank lines at both ends fall to trim(), and
\* the empty text splits into one empty line
RECURSIVE DropLeadingBlank(_)
DropLeadingBlank(ls) ==
    IF Len(ls) > 0 /\ ls[1] = BlankLine THEN DropLeadingBlank(Tail(ls)) ELSE ls

RECURSIVE DropTrailingBlank(_)
DropTrailingBlank(ls) ==
    IF Len(ls) > 0 /\ ls[Len(ls)] = BlankLine
    THEN DropTrailingBlank(SubSeq(ls, 1, Len(ls) - 1)) ELSE ls

\* ''.split('\n') is one empty line
Split(trimmed) == IF trimmed = <<>> THEN <<BlankLine>> ELSE trimmed

TrimSplit(content) == Split(DropTrailingBlank(DropLeadingBlank(content)))

----------------------------------------------------------------------------
(* importFromCSV                                                           *)

RowError(index, message) == "Row " \o ToString(index + 2) \o ": " \o message

InsufficientColumns == "Insufficient columns"
InvalidNumericValues == "Invalid numeric values"
InvalidTimeUnits == "Invalid time units"
InvalidEstimates == "Invalid estimates (optimistic <= nominal <= pessimistic required)"
FailedToParse == "Failed to parse - Error: Invalid estimate"

\* the end of the row: the task createTask returned, or the error of the catch
RowFromCreated(created, index) ==
    IF created.thrown
    THEN [ok |-> FALSE, error |-> RowError(index, FailedToParse)]
    ELSE [ok |-> TRUE, task |-> created.task]

\* the row once its estimate is built: validateEstimate, then createTask with
\* name || undefined and no id
RowFromEstimate(name, e, index, u) ==
    IF ~validateEstimate(e)
    THEN [ok |-> FALSE, error |-> RowError(index, InvalidEstimates)]
    ELSE RowFromCreated(createTask(IF name = "" THEN Undefined ELSE Some(name),
                                   e, Undefined, u), index)

\* a variant that checks the units before the numbers
RowFromFields_UnitsFirst(name, optimistic, nominal, pessimistic, index, u) ==
    IF \/ optimistic.unit \notin TimeUnit
       \/ nominal.unit \notin TimeUnit
       \/ pessimistic.unit \notin TimeUnit
    THEN [ok |-> FALSE, error |-> RowError(index, InvalidTimeUnits)]
    ELSE IF IsNaN(optimistic.value) \/ IsNaN(nominal.value) \/ IsNaN(pessimistic.value)
    THEN [ok |-> FALSE, error |-> RowError(index, InvalidNumericValues)]
    ELSE RowFromEstimate(name,
                         [optimistic |-> optimistic, nominal |-> nominal,
                          pessimistic |-> pessimistic],
                         index, u)

\* the row once its three values are parsed: the isNaN check, then the unit
\* check, then the estimate is built
RowFromFields(name, optimistic, nominal, pessimistic, index, u) ==
    IF IsNaN(optimistic.value) \/ IsNaN(nominal.value) \/ IsNaN(pessimistic.value)
    THEN [ok |-> FALSE, error |-> RowError(index, InvalidNumericValues)]
    ELSE IF \/ optimistic.unit \notin TimeUnit
            \/ nominal.unit \notin TimeUnit
            \/ pessimistic.unit \notin TimeUnit
    THEN [ok |-> FALSE, error |-> RowError(index, InvalidTimeUnits)]
    ELSE RowFromEstimate(name,
                         [optimistic |-> optimistic, nominal |-> nominal,
                          pessimistic |-> pessimistic],
                         index, u)

\* the row once it is tokenized: the column count, then parseFloat on the values
RowFromValues(cleanValues, index, u) ==
    IF Len(cleanValues) < 9
    THEN [ok |-> FALSE, error |-> RowError(index, InsufficientColumns)]
    ELSE RowFromFields(cleanValues[1],
                       [value |-> parseFloat(cleanValues[2]), unit |-> cleanValues[3]],
                       [value |-> parseFloat(cleanValues[4]), unit |-> cleanValues[5]],
                       [value |-> parseFloat(cleanValues[6]), unit |-> cleanValues[7]],
                       index, u)

\* the body of dataLines.forEach for one line: a task, or an error
ParseCsvRow(line, index, u) == RowFromValues(CleanValues(line), index, u)

\* tasks.push(task) or errors.push(...) for the outcome r of one row or item
Push(acc, r) ==
    IF r.ok
    THEN [acc EXCEPT !.tasks = Append(@, r.task), !.uuid = @ + r.used]
    ELSE [acc EXCEPT !.errors = Append(@, r.error)]

\* the outcome with the number of identifiers it took from crypto.randomUUID()
Used(r, n) == IF r.ok THEN [ok |-> TRUE, task |-> r.task, used |-> n] ELSE r

NoneYet(u) == [tasks |-> <<>>, errors |-> <<>>, uuid |-> u]

\* dataLines.forEach((line, index) => ...), index counted from 0
RECURSIVE forEachDataLine(_, _, _)

PushOrAbort(dataLines, index, acc, r) ==
    IF r.ok THEN forEachDataLine(dataLines, index + 1, Push(acc, r)) ELSE Push(acc, r)

forEachDataLine_AbortOnError(dataLines, index, acc) ==
    IF index >= Len(dataLines) THEN acc
    ELSE PushOrAbort(dataLines, index, acc,
                     Used(ParseCsvRow(dataLines[index + 1], index, acc.uuid), 1))

forEachDataLine(dataLines, index, acc) ==
    IF index >= Len(dataLines) THEN acc
    ELSE forEachDataLine(dataLines, index + 1,
             Push(acc, Used(ParseCsvRow(dataLines[index + 1], index, acc.uuid), 1)))

\* a variant that skips two lines for any first line that starts like a
\* project-name line
StartIndex_OnPrefix(lines) ==
    IF StartsWithProject(lines[1]) THEN 2 ELSE 0

\* startIndex (counted from 0): 2 when the first line is a project-name line
StartIndex(lines) ==
    IF StartsWithProject(lines[1]) /\ ProjectMatch(lines[1]).some THEN 2 ELSE 0

CsvProjectName(lines) ==
    IF StartsWithProject(lines[1]) THEN ProjectMatch(lines[1]) ELSE Undefined

\* the lines from startIndex on (counted from 0) that include 'Task Name'
HeaderCandidates(lines, startIndex) ==
    {i \in startIndex..(Len(lines) - 1) : IncludesTaskName(lines[i + 1])}

\* the first of them, startIndex itself when there is none
FirstOr(found, startIndex) ==
    IF found = {} THEN startIndex ELSE CHOOSE i \in found : \A j \in found : i <= j

\* headerIndex (counted from 0)
HeaderIndex(lines) == FirstOr(HeaderCandidates(lines, StartIndex(lines)), StartIndex(lines))

\* lines.slice(headerIndex + 1)
DataLines(lines) == SubSeq(lines, HeaderIndex(lines) + 2, Len(lines))

EmptyCsvError == "CSV file is empty or has no data rows"

\* the ImportResult at the end of both importers
ImportResult(pName, acc) ==
    [projectName |-> pName, tasks |-> acc.tasks,
     isValid |-> Len(acc.errors) = 0, errors |-> acc.errors]

ImportLines_EarlyReturnValid(lines, u) ==
    IF Len(lines) < 2
    THEN [projectName |-> Undefined, tasks |-> <<>>, isValid |-> TRUE,
          errors |-> <<EmptyCsvError>>]
    ELSE ImportResult(CsvProjectName(lines), forEachDataLine(DataLines(lines), 0, NoneYet(u)))

\* importFromCSV once the text is split into lines
ImportLines(lines, u) ==
    IF Len(lines) < 2
    THEN [projectName |-> Undefined, tasks |-> <<>>, isValid |-> FALSE,
          errors |-> <<EmptyCsvError>>]
    ELSE ImportResult(CsvProjectName(lines), forEachDataLine(DataLines(lines), 0, NoneYet(u)))

importFromCSV(content, u) == ImportLines(TrimSplit(content), u)

----------------------------------------------------------------------------
(* JSON text                                                               *)
(*                                                                         *)
(* A JSON text either fails JSON.parse or parses to a value.  A parsed     *)
(* value records what importFromJSON looks at: its type, and for an object *)
(* its version, its projectName, whether tasks is absent, an array or      *)
(* something else, and the items of that array (for an array: its items).  *)

\* the projectSummary of a JSON object that has none
NoSummary ==
    [present |-> FALSE, totalExpectedDuration |-> Num(0), totalStandardDeviation |-> Num(0),
     totalVariance |-> Num(0), tasks |-> <<>>]

JsonValue(type, version, pName, tasksKind) ==
    [type |-> type, version |-> version, projectName |-> pName,
     tasksKind |-> tasksKind, items |-> <<>>,
     projectSummary |-> NoSummary, exportedAt |-> Undefined]

Unparsable == [parses |-> FALSE, data |-> JsonValue("null", Undefined, Undefined, "absent")]
Parsed(data) == [parses |-> TRUE, data |-> data]

\* a time value of an item: absent, or an object with a value (a number, or
\* something that is no number) and a unit
AbsentTimeValue == [present |-> FALSE, isNumber |-> FALSE, value |-> NaN, unit |-> ""]
NumberTimeValue(i, unit) == [present |-> TRUE, isNumber |-> TRUE, value |-> Num(i), unit |-> unit]
StringTimeValue(unit) == [present |-> TRUE, isNumber |-> FALSE, value |-> NaN, unit |-> unit]

AbsentEstimate ==
    [present |-> FALSE, optimistic |-> AbsentTimeValue, nominal |-> AbsentTimeValue,
     pessimistic |-> AbsentTimeValue]
JsonEstimate(o, n, p) == [present |-> TRUE, optimistic |-> o, nominal |-> n, pessimistic |-> p]

\* the expectedDuration, standardDeviation and variance fields of an item:
\* absent, or three numbers
NoDerived ==
    [present |-> FALSE, expectedDuration |-> Num(0), standardDeviation |-> Num(0),
     variance |-> Num(0)]
Derived(expectedDuration, standardDeviation, variance) ==
    [present |-> TRUE, expectedDuration |-> expectedDuration,
     standardDeviation |-> standardDeviation, variance |-> variance]

JsonItem(type, name, id, est) ==
    [type |-> type, name |-> name, id |-> id, estimate |-> est, derived |-> NoDerived]

\* the item with expectedDuration, standardDeviation and variance fields
WithDerived(item, derived) == [item EXCEPT !.derived = derived]

\* taskData.estimate read as a TaskEstimate
AsTaskEstimate(est) ==
    [optimistic |-> [value |-> est.optimistic.value, unit |-> est.optimistic.unit],
     nominal |-> [value |-> est.nominal.value, unit |-> est.nominal.unit],
     pessimistic |-> [value |-> est.pessimistic.value, unit |-> est.pessimistic.unit]]

validateImportTaskData(taskData) ==
    /\ taskData.type = "object"
    /\ taskData.estimate.present
    /\ taskData.estimate.optimistic.present
    /\ taskData.estimate.nominal.present
    /\ taskData.estimate.pessimistic.present
    /\ taskData.estimate.optimistic.isNumber
    /\ taskData.estimate.nominal.isNumber
    /\ taskData.estimate.pessimistic.isNumber
    /\ taskData.estimate.optimistic.unit \in TimeUnit
    /\ taskData.estimate.nominal.unit \in TimeUnit
    /\ taskData.estimate.pessimistic.unit \in TimeUnit

----------------------------------------------------------------------------
(* importFromJSON                                                          *)

TaskError(index, message) == "Task " \o ToString(index + 1) \o ": " \o message

InvalidTaskStructure == "Invalid task structure"
InvalidEstimatesJson == "Invalid estimates"
CreateTaskError == "Error: Invalid estimate"
InvalidJsonFormat == "Invalid JSON format: Expected tasks array or export data object"
JsonSyntaxError == "JSON parsing failed: SyntaxError"
JsonTypeError == "JSON parsing failed: TypeError"

\* the end of the item: the task createTask returned, or the error of the catch
ItemFromCreated(created, index, id) ==
    IF created.thrown
    THEN [ok |-> FALSE, error |-> TaskError(index, CreateTaskError)]
    ELSE [ok |-> TRUE, task |-> created.task, used |-> UuidsUsed(created, id)]

ItemFromEstimate_StructureMessage(name, e, id, index, u) ==
    IF ~validateEstimate(e)
    THEN [ok |-> FALSE, error |-> TaskError(index, InvalidTaskStructure)]
    ELSE ItemFromCreated(createTask(name, e, id, u), index, id)

\* the item once its structure is accepted: validateEstimate, then createTask
ItemFromEstimate(name, e, id, index, u) ==
    IF ~validateEstimate(e)
    THEN [ok |-> FALSE, error |-> TaskError(index, InvalidEstimatesJson)]
    ELSE ItemFromCreated(createTask(name, e, id, u), index, id)

\* the outcome with the derived fields the item carried put over the task's
KeepDerived(r, derived) ==
    IF r.ok /\ derived.present
    THEN [r EXCEPT !.task.expectedDuration = derived.expectedDuration,
                   !.task.standardDeviation = derived.standardDeviation,
                   !.task.variance = derived.variance]
    ELSE r

\* a variant that keeps the derived fields an item carries
ParseJsonItem_KeepsDerived(taskData, index, keepId, u) ==
    IF ~validateImportTaskData(taskData)
    THEN [ok |-> FALSE, error |-> TaskError(index, InvalidTaskStructure)]
    ELSE KeepDerived(ItemFromEstimate(taskData.name, AsTaskEstimate(taskData.estimate),
                                      IF keepId THEN taskData.id ELSE Undefined, index, u),
                     taskData.derived)

\* the body of the two forEach loops for one item; keepId is TRUE in the
\* export-format loop, which hands taskData.id to createTask
ParseJsonItem(taskData, index, keepId, u) ==
    IF ~validateImportTaskData(taskData)
    THEN [ok |-> FALSE, error |-> TaskError(index, InvalidTaskStructure)]
    ELSE ItemFromEstimate(taskData.name, AsTaskEstimate(taskData.estimate),
                          IF keepId THEN taskData.id ELSE Undefined, index, u)

\* data.tasks.forEach / data.forEach, index counted from 0
RECURSIVE forEachItem(_, _, _, _)
forEachItem(items, index, keepId, acc) ==
    IF index >= Len(items) THEN acc
    ELSE forEachItem(items, index + 1, keepId,
             Push(acc, ParseJsonItem(items[index + 1], index, keepId, acc.uuid)))

\* data.version && data.tasks && Array.isArray(data.tasks)
IsExportFormat(data) == data.type = "object" /\ Truthy(data.version) /\ data.tasksKind = "array"

\* when JSON.parse throws
ParseFailure(u) == [tasks |-> <<>>, errors |-> <<JsonSyntaxError>>, uuid |-> u]

ImportData_BareArrayKeepsId(data, u) ==
    IF data.type = "null"
    THEN [tasks |-> <<>>, errors |-> <<JsonTypeError>>, uuid |-> u]
    ELSE IF IsExportFormat(data) THEN forEachItem(data.items, 0, TRUE, NoneYet(u))
    ELSE IF data.type = "array" THEN forEachItem(data.items, 0, TRUE, NoneYet(u))
    ELSE [tasks |-> <<>>, errors |-> <<InvalidJsonFormat>>, uuid |-> u]

ImportData_NoFormatError(data, u) ==
    IF data.type = "null"
    THEN [tasks |-> <<>>, errors |-> <<JsonTypeError>>, uuid |-> u]
    ELSE IF IsExportFormat(data) THEN forEachItem(data.items, 0, TRUE, NoneYet(u))
    ELSE IF data.type = "array" THEN forEachItem(data.items, 0, FALSE, NoneYet(u))
    ELSE NoneYet(u)

\* the try block of importFromJSON once JSON.parse has returned data.  Reading
\* data.version of null throws a TypeError, which the outer catch reports like
\* a parse failure.
ImportData(data, u) ==
    IF data.type = "null"
    THEN [tasks |-> <<>>, errors |-> <<JsonTypeError>>, uuid |-> u]
    ELSE IF IsExportFormat(data) THEN forEachItem(data.items, 0, TRUE, NoneYet(u))
    ELSE IF data.type = "array" THEN forEachItem(data.items, 0, FALSE, NoneYet(u))
    ELSE [tasks |-> <<>>, errors |-> <<InvalidJsonFormat>>, uuid |-> u]

\* projectName = data.projectName, assigned in the export-format branch only
JsonProjectName(content) ==
    IF content.parses /\ IsExportFormat(content.data)
    THEN content.data.projectName ELSE Undefined

importFromJSON(content, u) ==
    ImportResult(JsonProjectName(content),
                 IF content.parses THEN ImportData(content.data, u) ELSE ParseFailure(u))

\* the number of identifiers generated once importFromJSON has returned
UuidAfterJson(content, u) == IF content.parses THEN ImportData(content.data, u).uuid ELSE u

----------------------------------------------------------------------------
(* Number formatting                                                       *)

RECURSIVE Pow10(_)
Pow10(k) == IF k = 0 THEN 1 ELSE 10 * Pow10(k - 1)

RECURSIVE Digits(_, _)
\* the last k decimal digits of v, with leading zeros
Digits(v, k) == IF k = 0 THEN "" ELSE Digits(v \div 10, k - 1) \o ToString(v % 10)

\* q / 10^digits written with exactly that many decimals (q >= 0)
FixedText(q, digits) ==
    IF digits = 0 THEN ToString(q)
    ELSE ToString(q \div Pow10(digits)) \o "." \o Digits(q % Pow10(digits), digits)

\* the integer nearest to n/d * 10^digits, the larger one of two (n >= 0, d > 0)
RoundScaled(n, d, digits) == (2 * n * Pow10(digits) + d) \div (2 * d)

RECURSIVE RootScaled(_, _, _, _)
\* the integer q >= from nearest to sqrt(n/d) * 10^digits: the largest q with
\* (2q - 1)^2 * d <= 4 * 10^(2 * digits) * n
RootScaled(n, d, digits, from) ==
    IF (2 * from + 1) * (2 * from + 1) * d > 4 * Pow10(2 * digits) * n THEN from
    ELSE RootScaled(n, d, digits, from + 1)

\* Number.prototype.toFixed(digits)
toFixed(x, digits) ==
    IF IsNaN(x) THEN "NaN"
    ELSE IF x.k = "sqrt"
    THEN FixedText(RootScaled(x.n, x.d, digits, ISqrt(x.n \div x.d, 0) * Pow10(digits)), digits)
    ELSE IF x.n < 0 THEN "-" \o FixedText(RoundScaled(-x.n, x.d, digits), digits)
    ELSE FixedText(RoundScaled(x.n, x.d, digits), digits)

\* the number of decimals of a rational that has at most three
Decimals(x) == CHOOSE k \in 0..3 : (x.n * Pow10(k)) % x.d = 0 /\ \A j \in 0..(k - 1) : (x.n * Pow10(j)) % x.d # 0

\* Number.prototype.toString() of an estimate value: the shortest decimal,
\* for the values of the model, which have at most three decimals
toString(x) ==
    IF IsNaN(x) THEN "NaN"
    ELSE IF x.d = 1 THEN ToString(x.n)
    ELSE IF x.n < 0 THEN "-" \o FixedText(RoundScaled(-x.n, x.d, Decimals(x)), Decimals(x))
    ELSE FixedText(RoundScaled(x.n, x.d, Decimals(x)), Decimals(x))

\* new Date().toISOString() and new Date().toLocaleString() at time t
toISOString(t) == "T" \o ToString(t)
toLocaleString(t) == "L" \o ToString(t)

----------------------------------------------------------------------------
(* exportToCSV, exportToMarkdown, exportToJSON                             *)

\* task.name || `Task ${index + 1}` for the i-th task (i counted from 1)
DisplayName(task, i) == IF Truthy(task.name) THEN task.name.v ELSE "Task " \o ToString(i)

\* the cells of the row of the i-th task
CsvRow(task, i) ==
    <<DisplayName(task, i),
      toString(task.estimate.optimistic.value), task.estimate.optimistic.unit,
      toString(task.estimate.nominal.value), task.estimate.nominal.unit,
      toString(task.estimate.pessimistic.value), task.estimate.pessimistic.unit,
      toFixed(task.expectedDuration, 2), toFixed(task.standardDeviation, 2)>>

\* `"Project: ${projectName}"\n\n` when a project name is given
CsvProjectLines(pName) ==
    IF Truthy(pName) THEN <<(<<"Project: " \o pName.v>>), BlankLine>> ELSE <<>>

exportToCSV(ts, pName) ==
    CsvProjectLines(pName) \o <<HeaderLine>> \o [i \in 1..Len(ts) |-> CsvRow(ts[i], i)]

\* `${value} ${unit}`
ValueAndUnit(timeValue) == toString(timeValue.value) \o " " \o timeValue.unit

\* the cells of the table row of the i-th task
MarkdownRow(task, i) ==
    <<DisplayName(task, i),
      ValueAndUnit(task.estimate.optimistic), ValueAndUnit(task.estimate.nominal),
      ValueAndUnit(task.estimate.pessimistic),
      toFixed(task.expectedDuration, 2) \o " hours",
      toFixed(task.standardDeviation, 2) \o " hours">>

\* a variant that dates the default heading
exportToMarkdown_DatedHeading(ts, summary, pName, t) ==
    [heading |-> IF Truthy(pName) THEN pName.v
                 ELSE "PERT Project Estimation " \o toLocaleString(t),
     rows |-> [i \in 1..Len(ts) |-> MarkdownRow(ts[i], i)],
     totals |-> <<toFixed(summary.totalExpectedDuration, 2) \o " hours",
                  toFixed(summary.totalStandardDeviation, 2) \o " hours",
                  toFixed(summary.totalVariance, 4)>>,
     converted |-> [u \in TimeUnit |->
                       toFixed(convertFromHours(summary.totalExpectedDuration, u), 2)],
     generatedOn |-> toLocaleString(t)]

\* the Markdown text by its parts: the heading, the table rows, the three
\* totals, the expected duration in minutes, hours, days and weeks, and the
\* line "Generated on"; t is the time of the call
exportToMarkdown(ts, summary, pName, t) ==
    [heading |-> IF Truthy(pName) THEN pName.v ELSE "PERT Project Estimation",
     rows |-> [i \in 1..Len(ts) |-> MarkdownRow(ts[i], i)],
     totals |-> <<toFixed(summary.totalExpectedDuration, 2) \o " hours",
                  toFixed(summary.totalStandardDeviation, 2) \o " hours",
                  toFixed(summary.totalVariance, 4)>>,
     converted |-> [u \in TimeUnit |->
                       toFixed(convertFromHours(summary.totalExpectedDuration, u), 2)],
     generatedOn |-> toLocaleString(t)]

\* JSON.stringify of a time value: a number that is NaN is written null
JsonTimeValue(timeValue) ==
    [present |-> TRUE, isNumber |-> ~IsNaN(timeValue.value), value |-> timeValue.value,
     unit |-> timeValue.unit]

TaskToJson_NoId(task) ==
    [type |-> "object", name |-> task.name, id |-> Undefined,
     estimate |-> JsonEstimate(JsonTimeValue(task.estimate.optimistic),
                               JsonTimeValue(task.estimate.nominal),
                               JsonTimeValue(task.estimate.pessimistic)),
     derived |-> Derived(task.expectedDuration, task.standardDeviation, task.variance)]

\* JSON.stringify of a Task: a name that is undefined is left out
TaskToJson(task) ==
    [type |-> "object", name |-> task.name, id |-> Some(task.id),
     estimate |-> JsonEstimate(JsonTimeValue(task.estimate.optimistic),
                               JsonTimeValue(task.estimate.nominal),
                               JsonTimeValue(task.estimate.pessimistic)),
     derived |-> Derived(task.expectedDuration, task.standardDeviation, task.variance)]

SummaryToJson(summary) ==
    [present |-> TRUE, totalExpectedDuration |-> summary.totalExpectedDuration,
     totalStandardDeviation |-> summary.totalStandardDeviation,
     totalVariance |-> summary.totalVariance,
     tasks |-> [i \in 1..Len(summary.tasks) |-> TaskToJson(summary.tasks[i])]]

\* JSON.stringify(exportData, null, 2); t is the time of the call.  A
\* projectName that is undefined is left out.
exportToJSON(ts, summary, pName, t) ==
    Parsed([type |-> "object", version |-> Some("1.0"), projectName |-> pName,
            tasksKind |-> "array", items |-> [i \in 1..Len(ts) |-> TaskToJson(ts[i])],
            projectSummary |-> SummaryToJson(summary),
            exportedAt |-> Some(toISOString(t))])

----------------------------------------------------------------------------
(* The stored projects                                                     *)

\* JSON.parse of what JSON.stringify wrote for a number: null for NaN
NumberFromJson(timeValue) == IF timeValue.isNumber THEN timeValue.value ELSE NaN

TimeValueFromJson(timeValue) == [value |-> NumberFromJson(timeValue), unit |-> timeValue.unit]

\* JSON.parse of what JSON.stringify wrote for a Task
TaskFromJson(item) ==
    [id |-> item.id.v, name |-> item.name,
     estimate |-> [optimistic |-> TimeValueFromJson(item.estimate.optimistic),
                   nominal |-> TimeValueFromJson(item.estimate.nominal),
                   pessimistic |-> TimeValueFromJson(item.estimate.pessimistic)],
     expectedDuration |-> item.derived.expectedDuration,
     standardDeviation |-> item.derived.standardDeviation,
     variance |-> item.derived.variance]

\* JSON.parse(JSON.stringify(tasks)), the deep copy
DeepCopy(ts) == [i \in 1..Len(ts) |-> TaskFromJson(TaskToJson(ts[i]))]

\* getSavedProjects(): the array stored under the key
getSavedProjects(store) == store

\* the SavedProject saveProject makes; u is the number of identifiers
\* generated so far, t the time of the call
NewProject(name, ts, u, t) ==
    [id |-> randomUUID(u + 1), name |-> name, tasks |-> DeepCopy(ts),
     createdAt |-> toISOString(t), updatedAt |-> toISOString(t)]

\* the store after saveProject(name, tasks)
saveProject(store, name, ts, u, t) == Append(getSavedProjects(store), NewProject(name, ts, u, t))

\* projects.findIndex(p => p.id === projectId), 0 for -1
FindIndex(store, projectId) ==
    IF \E i \in 1..Len(store) : store[i].id = projectId
    THEN CHOOSE i \in 1..Len(store) :
             /\ store[i].id = projectId
             /\ \A j \in 1..(i - 1) : store[j].id # projectId
    ELSE 0

\* the stored project with the new name, tasks and updatedAt
Updated(project, name, ts, t) ==
    [project EXCEPT !.name = name, !.tasks = DeepCopy(ts), !.updatedAt = toISOString(t)]

\* the store after updateProject(projectId, name, tasks)
updateProject(store, projectId, name, ts, t) ==
    IF FindIndex(store, projectId) = 0 THEN store
    ELSE [store EXCEPT ![FindIndex(store, projectId)] = Updated(@, name, ts, t)]

\* loadProject(projectId) for a project that is stored
loadProject(store, projectId) == store[FindIndex(store, projectId)]

\* the store after deleteProject(projectId): projects.filter(p => p.id !== projectId)
IsNot(projectId, p) == p.id # projectId
deleteProject(store, projectId) == SelectSeq(store, LAMBDA p : IsNot(projectId, p))

\* the store after duplicateProject(projectId): saveProject of the name with
\* ' (Copy)' and the tasks of the original, nothing when it is not stored
duplicateProject(store, projectId, u, t) ==
    IF FindIndex(store, projectId) = 0 THEN store
    ELSE saveProject(store, loadProject(store, projectId).name \o " (Copy)",
                     loadProject(store, projectId).tasks, u, t)

----------------------------------------------------------------------------
(* Inputs                                                                  *)

Magnitudes == {NaN, Num(-1), Num(0), Num(1), Num(2), Num(4), Num(5), Num(12)}

TimeValues == [value : Magnitudes, unit : TimeUnit]

Estimates == [optimistic : TimeValues, nominal : TimeValues, pessimistic : TimeValues]

Hours(i) == [value |-> Num(i), unit |-> "hours"]

NoEstimate == [optimistic |-> Hours(1), nominal |-> Hours(1), pessimistic |-> Hours(1)]

Names == {Undefined, Some("Design")}
Ids == {Undefined, Some(""), Some("t1")}

\* what the caller of the exporters builds its tasks from and passes as the
\* project name
ExportNames == {Undefined, Some("Design")}
ExportEstimates ==
    {[optimistic |-> Hours(1), nominal |-> Hours(2), pessimistic |-> Hours(3)],
     [optimistic |-> [value |-> Rat(1, 2), unit |-> "days"],
      nominal |-> [value |-> Num(1), unit |-> "days"],
      pessimistic |-> [value |-> Num(1), unit |-> "weeks"]],
     [optimistic |-> Hours(5), nominal |-> Hours(3), pessimistic |-> Hours(8)]}
ProjectNames == {Undefined, Some(""), Some("Alpha")}

\* the estimator form: a magnitude field is empty (NaN here), 0 or a number
FormMagnitudes == {NaN, Num(0), Num(1), Num(4)}
FormUnits == {"hours", "days"}
FormNames == {"", "Design"}

Row(name, ov, ou, nv, nu, pv, pu) == <<name, ov, ou, nv, nu, pv, pu, "0.00", "0.00">>

GoodRow == Row("Design", "1", "hours", "2", "hours", "3", "hours")
MixedRow == Row("", "60", "minutes", "1", "hours", "1", "days")
MarkerRow == Row("Task Name review", "2", "hours", "3", "hours", "8", "hours")
ShortRow == <<"Build", "1", "hours", "2", "hours">>
\* a row that fails the number check and would fail the unit check, and a row
\* that fails the unit check and would fail the validator
NonNumericRow == Row("Test", "x", "months", "2", "hours", "3", "hours")
BadUnitRow == Row("Ship", "5", "hours", "3", "months", "8", "hours")
BadOrderRow == Row("Plan", "5", "hours", "3", "hours", "8", "hours")

CsvLines ==
    {BlankLine, HeaderLine, ProjectLine, NamelessProjectLine, GoodRow, MixedRow, MarkerRow,
     ShortRow, NonNumericRow, BadUnitRow, BadOrderRow}

JsonTexts ==
    {Unparsable,
     Parsed(JsonValue("null", Undefined, Undefined, "absent")),
     Parsed(JsonValue("number", Undefined, Undefined, "absent")),
     Parsed(JsonValue("string", Undefined, Undefined, "absent")),
     Parsed(JsonValue("array", Undefined, Undefined, "absent")),
     Parsed(JsonValue("object", Some("1.0"), Undefined, "array")),
     Parsed(JsonValue("object", Some("1.0"), Some("Alpha"), "array")),
     Parsed(JsonValue("object", Some("1.0"), Some("Alpha"), "other")),
     Parsed(JsonValue("object", Some("1.0"), Undefined, "absent")),
     Parsed(JsonValue("object", Some(""), Undefined, "array")),
     Parsed(JsonValue("object", Undefined, Some("Alpha"), "array"))}

GoodJsonEstimate ==
    JsonEstimate(NumberTimeValue(1, "hours"), NumberTimeValue(2, "hours"),
                 NumberTimeValue(3, "hours"))

JsonItems ==
    {JsonItem("null", Undefined, Undefined, AbsentEstimate),
     JsonItem("number", Undefined, Undefined, AbsentEstimate),
     JsonItem("object", Some("Build"), Some("t1"), AbsentEstimate),
     JsonItem("object", Undefined, Undefined,
              JsonEstimate(NumberTimeValue(1, "hours"), AbsentTimeValue,
                           NumberTimeValue(3, "hours"))),
     JsonItem("object", Some("Test"), Undefined,
              JsonEstimate(StringTimeValue("hours"), NumberTimeValue(2, "hours"),
                           NumberTimeValue(3, "hours"))),
     JsonItem("object", Some("Ship"), Undefined,
              JsonEstimate(NumberTimeValue(1, "hours"), NumberTimeValue(2, "months"),
                           NumberTimeValue(3, "hours"))),
     JsonItem("object", Undefined, Some("t2"),
              JsonEstimate(NumberTimeValue(5, "hours"), NumberTimeValue(3, "hours"),
                           NumberTimeValue(8, "hours"))),
     WithDerived(JsonItem("object", Some("Design"), Undefined, GoodJsonEstimate),
                 Derived(Num(12), Num(0), Num(5))),
     JsonItem("object", Some(""), Some(""), GoodJsonEstimate),
     JsonItem("object", Undefined, Some("t1"),
              JsonEstimate(NumberTimeValue(60, "minutes"), NumberTimeValue(1, "hours"),
                           NumberTimeValue(1, "days")))}

\* the files the user picks for an import: the extension of the name, the
\* text (of the kind the extension promises) and whether file.text() resolves
CsvFile(lines) == [extension |-> "csv", csv |-> lines, json |-> Unparsable, readable |-> TRUE]
JsonFile(text) == [extension |-> "json", csv |-> <<>>, json |-> text, readable |-> TRUE]

\* an envelope or a bare array with the given items
Envelope(pName, items) ==
    Parsed([JsonValue("object", Some("1.0"), pName, "array") EXCEPT !.items = items])
BareArray(items) ==
    Parsed([JsonValue("array", Undefined, Undefined, "absent") EXCEPT !.items = items])

GoodItem(name, id) == JsonItem("object", name, id, GoodJsonEstimate)
BadOrderItem ==
    JsonItem("object", Undefined, Some("t2"),
             JsonEstimate(NumberTimeValue(5, "hours"), NumberTimeValue(3, "hours"),
                          NumberTimeValue(8, "hours")))

ImportFiles ==
    {CsvFile(<<HeaderLine, GoodRow>>),
     CsvFile(<<ProjectLine, BlankLine, HeaderLine, MixedRow>>),
     CsvFile(<<ProjectLine, BlankLine, HeaderLine, GoodRow, BadOrderRow>>),
     CsvFile(<<HeaderLine>>),
     JsonFile(Envelope(Some("Alpha"), <<GoodItem(Some("Design"), Some("t1"))>>)),
     JsonFile(Envelope(Some("Alpha"), <<GoodItem(Undefined, Some("t1")), BadOrderItem>>)),
     JsonFile(BareArray(<<GoodItem(Some("Design"), Some("t1"))>>)),
     JsonFile(Unparsable),
     [extension |-> "txt", csv |-> <<>>, json |-> Unparsable, readable |-> TRUE],
     [extension |-> "csv", csv |-> <<>>, json |-> Unparsable, readable |-> FALSE]}

----------------------------------------------------------------------------
(* The state machine                                                       *)

NoCall == [op |-> "none"]

\* the component as it is set up: no project, no message, and the clock
ComponentSetup ==
    /\ now = 0
    /\ projectName = ""
    /\ importError = ""
    /\ importSuccess = FALSE
    /\ projectImportError = ""
    /\ projectImportSuccess = FALSE
    /\ localStorage = <<>>
    /\ savedProjects = <<>>
    /\ currentProjectId = ""

Idle ==
    /\ ComponentSetup
    /\ estimate = NoEstimate
    /\ csvContent = <<>>
    /\ jsonContent = Unparsable
    /\ tasks = <<>>
    /\ ret = NoCall
    /\ uuid = 0

InitPert ==
    /\ mode = "pert"
    /\ ComponentSetup
    /\ estimate \in Estimates
    /\ csvContent = <<>>
    /\ jsonContent = Unparsable
    /\ tasks = <<>>
    /\ ret = NoCall
    /\ uuid = 0

InitTasks == mode = "tasks" /\ Idle

InitCsv == mode = "csv" /\ Idle

InitExport == mode = "export" /\ Idle

InitUi == mode = "ui" /\ Idle

InitProjects == mode = "projects" /\ Idle

InitJson ==
    /\ mode = "json"
    /\ ComponentSetup
    /\ estimate = NoEstimate
    /\ csvContent = <<>>
    /\ jsonContent \in JsonTexts
    /\ tasks = <<>>
    /\ ret = NoCall
    /\ uuid = 0

Init == InitPert \/ InitTasks \/ InitCsv \/ InitJson \/ InitExport \/ InitUi \/ InitProjects

\* a caller asks validateEstimate about the estimate
CallValidateEstimate ==
    /\ mode = "pert" /\ ret = NoCall
    /\ ret' = [op |-> "validateEstimate", valid |-> validateEstimate(estimate)]
    /\ UNCHANGED <<now, importVars, projectVars, mode, estimate, csvContent, jsonContent, tasks, uuid>>

\* a caller runs calculatePert on the estimate
CallCalculatePert ==
    /\ mode = "pert" /\ ret = NoCall
    /\ ret' = [op |-> "calculatePert", calculation |-> calculatePert(estimate)]
    /\ UNCHANGED <<now, importVars, projectVars, mode, estimate, csvContent, jsonContent, tasks, uuid>>

\* a caller runs createTask on the estimate, with or without a name and an id
CallCreateTask ==
    /\ mode = "pert" /\ ret = NoCall
    /\ \E name \in Names, id \in Ids :
         /\ ret' = [op |-> "createTask", created |-> createTask(name, estimate, id, uuid)]
         /\ uuid' = uuid + UuidsUsed(createTask(name, estimate, id, uuid), id)
    /\ UNCHANGED <<now, importVars, projectVars, mode, estimate, csvContent, jsonContent, tasks>>

\* isValidForm for the form fields: an empty, zero or NaN magnitude is falsy
isValidForm(e) ==
    /\ ~IsNaN(e.optimistic.value) /\ e.optimistic.value # Num(0)
    /\ ~IsNaN(e.nominal.value) /\ e.nominal.value # Num(0)
    /\ ~IsNaN(e.pessimistic.value) /\ e.pessimistic.value # Num(0)
    /\ validateEstimate(e)

\* tasks.value.push(task) for the task createTask returned
PushTask(created) ==
    /\ ~created.thrown
    /\ tasks' = Append(tasks, created.task)
    /\ uuid' = uuid + 1

FormTimeValues == [value : FormMagnitudes, unit : FormUnits]

\* what is typed into the form where the run is about the whole component
\* rather than about the task collection alone
FormNamesIn(m) == IF m = "tasks" THEN FormNames ELSE {""}
FormTimeValuesIn(m) ==
    IF m = "tasks" THEN FormTimeValues
    ELSE IF m = "ui" THEN [value : {NaN, Num(1), Num(4)}, unit : {"hours"}]
    ELSE [value : {NaN, Num(4)}, unit : {"hours"}]

\* how many identifiers a session of the component generates
UuidBound(m) == IF m = "projects" THEN MaxProjectUuid ELSE MaxUuid

\* the modes in which the component runs
Component == {"tasks", "ui", "projects"}

\* watch([tasks, projectName], ...): when tasks or projectName has been
\* assigned, the callback runs before any other handler; given the values
\* after the handler, it calls updateCurrentProject
AutoSave_IgnoresName(id, name, ts) ==
    /\ localStorage' = IF id # "" THEN updateProject(localStorage, id, name, ts, now)
                        ELSE localStorage
    /\ savedProjects' = getSavedProjects(localStorage')

AutoSave(id, name, ts) ==
    /\ localStorage' = IF id # "" /\ name # ""
                        THEN updateProject(localStorage, id, name, ts, now)
                        ELSE localStorage
    /\ savedProjects' = IF id # "" /\ name # ""
                         THEN getSavedProjects(localStorage')
                         ELSE savedProjects

addTask ==
    /\ mode \in Component
    /\ Len(tasks) < MaxTasks /\ uuid < UuidBound(mode)
    /\ \E newTaskName \in FormNamesIn(mode), o \in FormTimeValuesIn(mode),
          n \in FormTimeValuesIn(mode), p \in FormTimeValuesIn(mode) :
         /\ isValidForm([optimistic |-> o, nominal |-> n, pessimistic |-> p])
         /\ PushTask(createTask(IF newTaskName = "" THEN Undefined ELSE Some(newTaskName),
                                [optimistic |-> o, nominal |-> n, pessimistic |-> p],
                                Undefined, uuid))
    /\ AutoSave(currentProjectId, projectName, tasks')
    /\ ret' = NoCall
    /\ UNCHANGED <<now, importVars, projectName, currentProjectId>>
    /\ UNCHANGED <<mode, estimate, csvContent, jsonContent>>

removeTask ==
    /\ mode \in Component
    /\ \E i \in 1..Len(tasks) :
         LET taskId == tasks[i].id
             keep(t) == t.id # taskId
         IN  tasks' = SelectSeq(tasks, keep)
    /\ AutoSave(currentProjectId, projectName, tasks')
    /\ ret' = NoCall
    /\ UNCHANGED <<now, importVars, projectName, currentProjectId>>
    /\ UNCHANGED <<mode, estimate, csvContent, jsonContent, uuid>>

clearAllTasks ==
    /\ mode \in Component
    /\ tasks # <<>>
    /\ tasks' = <<>>
    /\ AutoSave(currentProjectId, projectName, tasks')
    /\ ret' = NoCall
    /\ UNCHANGED <<now, importVars, projectName, currentProjectId>>
    /\ UNCHANGED <<mode, estimate, csvContent, jsonContent, uuid>>

RECURSIVE Join(_, _)
\* errors.join('; ') from the i-th error on
Join(errors, i) ==
    IF i > Len(errors) THEN ""
    ELSE IF i = Len(errors) THEN errors[i]
    ELSE errors[i] \o "; " \o Join(errors, i + 1)

\* translate('tools.pert-estimator.invalidFormat')
InvalidFormatMessage == "tools.pert-estimator.invalidFormat"
\* `Import failed: ${error}` when file.text() rejects
ImportFailedMessage == "Import failed: NotReadableError"

\* importFromCSV(content) or importFromJSON(content), by the extension
ReadFile(file, u) ==
    IF file.extension = "csv" THEN importFromCSV(file.csv, u) ELSE importFromJSON(file.json, u)

\* the number of identifiers generated once that call has returned
UuidAfterRead(file, u) ==
    IF file.extension = "csv" THEN u + Len(importFromCSV(file.csv, u).tasks)
    ELSE UuidAfterJson(file.json, u)

\* whether the handler that takes the extensions got, for the file, an import
\* result with isValid = TRUE
GotValidResult(file, extensions, u) ==
    file.readable /\ file.extension \in extensions /\ ReadFile(file, u).isValid

\* the record of a call of an import handler of the component; a call of
\* another handler of the component leaves no record
ImportCall(op, valid) == [op |-> op, valid |-> valid]

\* handleImportFile returns with a message
RejectImport(message) ==
    /\ importError' = message
    /\ importSuccess' = FALSE
    /\ UNCHANGED <<tasks, projectName, localStorage, savedProjects>>

\* handleImportFile takes the result over: the project name if there is one,
\* and the tasks, in place of the present ones or after them
AcceptImport(result, replace) ==
    /\ Len(tasks) + Len(result.tasks) <= MaxTasks
    /\ projectName' = IF Truthy(result.projectName) THEN result.projectName.v ELSE projectName
    /\ tasks' = IF Len(tasks) > 0 /\ ~replace THEN tasks \o result.tasks ELSE result.tasks
    /\ importError' = ""
    /\ importSuccess' = TRUE
    /\ AutoSave(currentProjectId, projectName', tasks')

AcceptOrReject_IgnoresIsValid(result, replace) == AcceptImport(result, replace)

\* if (!result.isValid) { importError.value = result.errors.join('; '); return; }
AcceptOrReject(result, replace) ==
    IF ~result.isValid THEN RejectImport(Join(result.errors, 1))
    ELSE AcceptImport(result, replace)

\* handleImportFile for a file; replace is the answer to the confirm dialog,
\* which is asked when there are tasks
handleImportFileOn(file, replace) ==
    /\ mode \in {"ui", "projects"}
    /\ uuid < UuidBound(mode)
    /\ IF ~file.readable
       THEN RejectImport(ImportFailedMessage) /\ uuid' = uuid
       ELSE IF file.extension \notin {"csv", "json"}
       THEN RejectImport(InvalidFormatMessage) /\ uuid' = uuid
       ELSE /\ uuid' = UuidAfterRead(file, uuid)
            /\ AcceptOrReject(ReadFile(file, uuid), replace)
    /\ ret' = ImportCall("handleImportFile", GotValidResult(file, {"csv", "json"}, uuid))
    /\ UNCHANGED <<now, projectImportError, projectImportSuccess, currentProjectId>>
    /\ UNCHANGED <<mode, estimate, csvContent, jsonContent>>

\* the answers the user can give: the dialog is shown when there are tasks
ConfirmAnswers == IF Len(tasks) > 0 THEN BOOLEAN ELSE {TRUE}

\* the files picked where the run is about the imports, and where it is
\* about the saved projects
AlphaFile == JsonFile(Envelope(Some("Alpha"), <<GoodItem(Some("Design"), Some("t1"))>>))
ProjectFiles ==
    {AlphaFile, JsonFile(Envelope(Some("Alpha"), <<GoodItem(Undefined, Some("t1")), BadOrderItem>>))}
ImportFilesIn(m) == IF m = "ui" THEN ImportFiles ELSE {AlphaFile}

handleImportFile == \E file \in ImportFilesIn(mode), replace \in ConfirmAnswers : handleImportFileOn(file, replace)

\* setTimeout(() => importSuccess.value = false, 3000)
importSuccessTimeout ==
    /\ mode \in Component
    /\ importSuccess
    /\ importSuccess' = FALSE
    /\ UNCHANGED <<now, importError, projectImportError, projectImportSuccess, projectVars>>
    /\ UNCHANGED <<mode, estimate, ret, csvContent, jsonContent, tasks, uuid>>

\* translate('tools.pert-estimator.onlyJsonSupported')
OnlyJsonSupportedMessage == "tools.pert-estimator.onlyJsonSupported"

\* handleProjectImportFile returns with a message
RejectProjectImport(message) ==
    /\ projectImportError' = message
    /\ projectImportSuccess' = FALSE
    /\ UNCHANGED <<tasks, projectVars>>

\* loadSavedProject(projectId) on the store, for a project that is stored,
\* and the watcher after it, which finds the project current and named
LoadFrom(store, projectId) ==
    /\ tasks' = DeepCopy(loadProject(store, projectId).tasks)
    /\ projectName' = loadProject(store, projectId).name
    /\ currentProjectId' = loadProject(store, projectId).id
    /\ localStorage' = IF currentProjectId' # "" /\ projectName' # ""
                        THEN updateProject(store, currentProjectId', projectName', tasks', now)
                        ELSE store
    /\ savedProjects' = getSavedProjects(localStorage')

\* handleProjectImportFile saves the result as a new project, named
\* result.projectName || 'Imported Project', and loads it; u is the number
\* of identifiers generated once importFromJSON has returned
AcceptProjectImport(result, u) ==
    /\ LoadFrom(saveProject(localStorage,
                            IF Truthy(result.projectName) THEN result.projectName.v
                            ELSE "Imported Project",
                            result.tasks, u, now),
                randomUUID(u + 1))
    /\ uuid' = u + 1
    /\ projectImportError' = ""
    /\ projectImportSuccess' = TRUE

AcceptOrRejectProject_IgnoresIsValid(result, u) == AcceptProjectImport(result, u)

\* if (!result.isValid) { projectImportError.value = result.errors.join('; '); return; }
AcceptOrRejectProject(result, u) ==
    IF ~result.isValid THEN RejectProjectImport(Join(result.errors, 1)) /\ uuid' = u
    ELSE AcceptProjectImport(result, u)

\* handleProjectImportFile for a file
handleProjectImportFileOn(file) ==
    /\ mode = "projects"
    /\ uuid < UuidBound(mode) /\ Len(localStorage) < MaxProjects
    /\ IF ~file.readable
       THEN RejectProjectImport(ImportFailedMessage) /\ uuid' = uuid
       ELSE IF file.extension # "json"
       THEN RejectProjectImport(OnlyJsonSupportedMessage) /\ uuid' = uuid
       ELSE AcceptOrRejectProject(importFromJSON(file.json, uuid), UuidAfterJson(file.json, uuid))
    /\ ret' = ImportCall("handleProjectImportFile", GotValidResult(file, {"json"}, uuid))
    /\ UNCHANGED <<now, importError, importSuccess>>
    /\ UNCHANGED <<mode, estimate, csvContent, jsonContent>>

handleProjectImportFile == \E file \in ProjectFiles : handleProjectImportFileOn(file)

\* setTimeout(() => projectImportSuccess.value = false, 3000)
projectImportSuccessTimeout ==
    /\ mode \in Component
    /\ projectImportSuccess
    /\ projectImportSuccess' = FALSE
    /\ UNCHANGED <<now, importError, importSuccess, projectImportError, projectVars>>
    /\ UNCHANGED <<mode, estimate, ret, csvContent, jsonContent, tasks, uuid>>

\* what is typed into the fields for a name: nothing, a blank, a name
TypedNames == {"", " ", "Beta"}

\* what is typed over the project name
FieldNames == {"", "Beta"}

\* text.trim() on what is typed
Trim(text) == IF text = " " THEN "" ELSE text

\* the store after the watcher's callback, which runs when the handler has
\* assigned tasks or projectName (changed), with the values it finds then
Watched(store, changed, id, name, ts) ==
    IF changed /\ id # "" /\ name # "" THEN updateProject(store, id, name, ts, now) ELSE store

\* saveCurrentProject with newProjectName typed: saveProject, the refresh of
\* the list, the new project made current and named, then the watcher
saveCurrentProjectAs(name) ==
    /\ name # ""
    /\ currentProjectId' = randomUUID(uuid + 1)
    /\ projectName' = name
    /\ localStorage' = Watched(saveProject(localStorage, name, tasks, uuid, now),
                               name # projectName, currentProjectId', name, tasks)
    /\ savedProjects' = getSavedProjects(localStorage')

saveCurrentProject ==
    /\ mode = "projects"
    /\ uuid < UuidBound(mode) /\ Len(localStorage) < MaxProjects
    /\ \E newProjectName \in TypedNames : saveCurrentProjectAs(Trim(newProjectName))
    /\ uuid' = uuid + 1
    /\ ret' = NoCall
    /\ UNCHANGED <<now, importVars, mode, estimate, csvContent, jsonContent, tasks>>

\* a click on a project of the list
loadSavedProject ==
    /\ mode = "projects"
    /\ \E i \in 1..Len(savedProjects) :
         /\ FindIndex(localStorage, savedProjects[i].id) # 0
         /\ LoadFrom(localStorage, savedProjects[i].id)
    /\ ret' = NoCall
    /\ UNCHANGED <<now, importVars, mode, estimate, csvContent, jsonContent, uuid>>

DeleteConfirmed_KeepsCurrent(projectId) ==
    /\ localStorage' = deleteProject(localStorage, projectId)
    /\ savedProjects' = getSavedProjects(localStorage')
    /\ UNCHANGED <<currentProjectId, projectName, tasks, uuid>>

\* handleProjectAction('delete', ..) once the user has confirmed
DeleteConfirmed(projectId) ==
    /\ localStorage' = deleteProject(localStorage, projectId)
    /\ savedProjects' = getSavedProjects(localStorage')
    /\ currentProjectId' = IF currentProjectId = projectId THEN "" ELSE currentProjectId
    /\ projectName' = IF currentProjectId = projectId THEN "" ELSE projectName
    /\ tasks' = IF currentProjectId = projectId THEN <<>> ELSE tasks
    /\ uuid' = uuid

\* handleProjectAction('duplicate', ..)
Duplicate(projectId) ==
    /\ uuid < UuidBound(mode) /\ Len(localStorage) < MaxProjects
    /\ localStorage' = duplicateProject(localStorage, projectId, uuid, now)
    /\ savedProjects' = getSavedProjects(localStorage')
    /\ uuid' = uuid + 1
    /\ UNCHANGED <<tasks, projectName, currentProjectId>>

\* handleProjectAction(key, option) for the keys that write: 'rename' opens
\* the dialog that confirmRename closes, 'export' downloads a file
handleProjectActionOn(key, projectId, confirmed) ==
    /\ mode = "projects"
    /\ IF key = "duplicate" THEN Duplicate(projectId)
       ELSE IF confirmed THEN DeleteConfirmed(projectId)
       ELSE UNCHANGED <<tasks, projectVars, uuid>>
    /\ ret' = NoCall
    /\ UNCHANGED <<now, importVars, mode, estimate, csvContent, jsonContent>>

handleProjectAction ==
    \E i \in 1..Len(savedProjects), key \in {"duplicate", "delete"}, confirmed \in BOOLEAN :
        handleProjectActionOn(key, savedProjects[i].id, confirmed)

\* confirmRename for the project the dialog was opened on, with the name
\* typed: updateProject with the stored tasks, the refresh of the list, the
\* name taken over when the project is the current one, then the watcher
confirmRenameAs(projectId, name) ==
    /\ name # ""
    /\ FindIndex(localStorage, projectId) # 0
    /\ projectName' = IF currentProjectId = projectId THEN name ELSE projectName
    /\ localStorage' = Watched(updateProject(localStorage, projectId, name,
                                             loadProject(localStorage, projectId).tasks, now),
                               projectName' # projectName, currentProjectId, projectName', tasks)
    /\ savedProjects' = getSavedProjects(localStorage')

confirmRename ==
    /\ mode = "projects"
    /\ \E i \in 1..Len(savedProjects), renameProjectName \in TypedNames :
         confirmRenameAs(savedProjects[i].id, Trim(renameProjectName))
    /\ ret' = NoCall
    /\ UNCHANGED <<now, importVars, mode, estimate, csvContent, jsonContent>>
    /\ UNCHANGED <<tasks, currentProjectId, uuid>>

\* the project name field, v-model:value="projectName": a name is typed over
\* the present one, then the watcher
setProjectName ==
    /\ mode = "projects"
    /\ \E name \in FieldNames :
         /\ name # projectName
         /\ projectName' = name
    /\ AutoSave(currentProjectId, projectName', tasks)
    /\ ret' = NoCall
    /\ UNCHANGED <<now, importVars, mode, estimate, csvContent, jsonContent>>
    /\ UNCHANGED <<tasks, currentProjectId, uuid>>

\* the computed projectSummary of the component
projectSummary == calculateProjectSummary(tasks)

\* one more line of the CSV file that is going to be imported
TypeCsvLine ==
    /\ mode = "csv" /\ ret = NoCall
    /\ Len(csvContent) < MaxLines
    /\ \E line \in CsvLines : csvContent' = Append(csvContent, line)
    /\ UNCHANGED <<now, importVars, projectVars, mode, estimate, ret, jsonContent, tasks, uuid>>

\* a caller runs importFromCSV on the text: the text that was typed, or the
\* text exportToCSV has just returned (then source is that call)
CallImportFromCSV ==
    /\ \/ mode = "csv" /\ ret = NoCall
       \/ mode = "export" /\ ret.op = "exportToCSV"
    /\ ret' = [op |-> "importFromCSV", result |-> importFromCSV(csvContent, uuid),
               source |-> ret]
    /\ uuid' = uuid + Len(ret'.result.tasks)
    /\ UNCHANGED <<now, importVars, projectVars, mode, estimate, csvContent, jsonContent, tasks>>

\* the array the JSON text holds, if it holds one
HasItems(content) ==
    content.parses /\ (content.data.type = "array" \/ content.data.tasksKind = "array")

\* one more item in the task array of the JSON file that is going to be imported
TypeJsonItem ==
    /\ mode = "json" /\ ret = NoCall
    /\ HasItems(jsonContent)
    /\ Len(jsonContent.data.items) < MaxItems
    /\ \E item \in JsonItems :
         jsonContent' = [jsonContent EXCEPT !.data.items = Append(@, item)]
    /\ UNCHANGED <<now, importVars, projectVars, mode, estimate, ret, csvContent, tasks, uuid>>

\* a caller runs importFromJSON on the text: the text that was typed, or the
\* text exportToJSON has just returned (then source is that call)
CallImportFromJSON ==
    /\ \/ mode = "json" /\ ret = NoCall
       \/ mode = "export" /\ ret.op = "exportToJSON"
    /\ ret' = [op |-> "importFromJSON", result |-> importFromJSON(jsonContent, uuid),
               source |-> ret]
    /\ uuid' = UuidAfterJson(jsonContent, uuid)
    /\ UNCHANGED <<now, importVars, projectVars, mode, estimate, csvContent, jsonContent, tasks>>

\* the clock advances
Tick ==
    /\ mode \in {"export", "projects"}
    /\ now < MaxClock
    /\ now' = now + 1
    /\ UNCHANGED <<importVars, projectVars, mode, estimate, ret, csvContent, jsonContent, tasks, uuid>>

\* a caller of the exporters builds its task collection with createTask
CollectTask ==
    /\ mode = "export" /\ ret = NoCall
    /\ Len(tasks) < MaxTasks
    /\ \E name \in ExportNames, e \in ExportEstimates, id \in Ids :
         /\ ~createTask(name, e, id, uuid).thrown
         /\ tasks' = Append(tasks, createTask(name, e, id, uuid).task)
         /\ uuid' = uuid + UuidsUsed(createTask(name, e, id, uuid), id)
    /\ UNCHANGED <<now, importVars, projectVars, mode, estimate, ret, csvContent, jsonContent>>

ExportOps == {"exportToCSV", "exportToMarkdown", "exportToJSON"}

\* an exporter is called on a collection that is built, any number of times
CanExport(op) == mode = "export" /\ ret.op \in {"none", op}

\* the record of a call to an exporter: its project name, and whether the
\* call before it was the same exporter with the same project name
ExportCall(op, pName) ==
    [op |-> op, projectName |-> pName,
     repeated |-> ret.op = op /\ ret.projectName = pName]

CallExportToCSV ==
    /\ CanExport("exportToCSV")
    /\ \E pName \in ProjectNames :
         /\ csvContent' = exportToCSV(tasks, pName)
         /\ ret' = ExportCall("exportToCSV", pName)
    /\ UNCHANGED <<now, importVars, projectVars, mode, estimate, jsonContent, tasks, uuid>>

\* the Markdown text is kept with the call
CallExportToMarkdown ==
    /\ CanExport("exportToMarkdown")
    /\ \E pName \in ProjectNames :
         ret' = [op |-> "exportToMarkdown", projectName |-> pName,
                 repeated |-> ret.op = "exportToMarkdown" /\ ret.projectName = pName,
                 text |-> exportToMarkdown(tasks, calculateProjectSummary(tasks), pName, now)]
    /\ UNCHANGED <<now, importVars, projectVars, mode, estimate, csvContent, jsonContent, tasks, uuid>>

CallExportToJSON ==
    /\ CanExport("exportToJSON")
    /\ \E pName \in ProjectNames :
         /\ jsonContent' = exportToJSON(tasks, calculateProjectSummary(tasks), pName, now)
         /\ ret' = ExportCall("exportToJSON", pName)
    /\ UNCHANGED <<now, importVars, projectVars, mode, estimate, csvContent, tasks, uuid>>

NextPert == CallValidateEstimate \/ CallCalculatePert \/ CallCreateTask
NextTasks == addTask \/ removeTask \/ clearAllTasks
NextCsv == TypeCsvLine \/ CallImportFromCSV
NextJson == TypeJsonItem \/ CallImportFromJSON
NextExport ==
    \/ Tick \/ CollectTask
    \/ CallExportToCSV \/ CallExportToMarkdown \/ CallExportToJSON
    \/ CallImportFromCSV \/ CallImportFromJSON
NextUi ==
    \/ addTask \/ removeTask \/ clearAllTasks
    \/ handleImportFile \/ importSuccessTimeout
    \/ handleProjectImportFile \/ projectImportSuccessTimeout
    \/ saveCurrentProject \/ loadSavedProject \/ handleProjectAction
    \/ confirmRename \/ setProjectName \/ Tick
NextImport == TypeCsvLine \/ CallImportFromCSV \/ TypeJsonItem \/ CallImportFromJSON

Next ==
    \/ CallValidateEstimate \/ CallCalculatePert \/ CallCreateTask
    \/ addTask \/ removeTask \/ clearAllTasks
    \/ TypeCsvLine \/ CallImportFromCSV
    \/ TypeJsonItem \/ CallImportFromJSON
    \/ Tick \/ CollectTask
    \/ CallExportToCSV \/ CallExportToMarkdown \/ CallExportToJSON
    \/ handleImportFile \/ importSuccessTimeout
    \/ handleProjectImportFile \/ projectImportSuccessTimeout
    \/ saveCurrentProject \/ loadSavedProject \/ handleProjectAction
    \/ confirmRename \/ setProjectName

Spec == Init /\ [][Next]_vars
SpecPert == InitPert /\ [][NextPert]_vars
SpecTasks == InitTasks /\ [][NextTasks]_vars
SpecCsv == InitCsv /\ [][NextCsv]_vars
SpecJson == InitJson /\ [][NextJson]_vars
SpecUi == (InitUi \/ InitProjects) /\ [][NextUi]_vars
SpecProjects == InitProjects /\ [][NextUi]_vars
SpecExport == InitExport /\ [][NextExport]_vars
SpecImport == (InitCsv \/ InitJson) /\ [][NextImport]_vars

TypeOK ==
    /\ mode \in {"pert", "tasks", "csv", "json", "export", "ui", "projects"}
    /\ now \in 0..MaxClock
    /\ uuid \in Nat
    /\ Len(tasks) <= MaxTasks
    /\ importSuccess \in BOOLEAN /\ projectImportSuccess \in BOOLEAN
    /\ mode = "csv" => Len(csvContent) <= MaxLines

----------------------------------------------------------------------------
(* Properties                                                              *)

\* a time value in hours, by the factors of the data model: a minute is 1/60
\* hour, a day 8 hours, a week 40 hours
InHours(tv) ==
    CASE tv.unit = "minutes" -> Mul(tv.value, Rat(1, 60))
      [] tv.unit = "hours" -> tv.value
      [] tv.unit = "days" -> Mul(tv.value, Num(8))
      [] tv.unit = "weeks" -> Mul(tv.value, Num(40))

Positive(x) == x.k = "rat" /\ x.n > 0
AtMost(x, y) == x.k = "rat" /\ y.k = "rat" /\ x.n * y.d <= y.n * x.d

\* 0 < optimistic <= nominal <= pessimistic, in hours
OrderedInHours(e) ==
    /\ e.optimistic.unit \in TimeUnit /\ e.nominal.unit \in TimeUnit
    /\ e.pessimistic.unit \in TimeUnit
    /\ Positive(InHours(e.optimistic))
    /\ AtMost(InHours(e.optimistic), InHours(e.nominal))
    /\ AtMost(InHours(e.nominal), InHours(e.pessimistic))

IsImport == ret.op \in {"importFromCSV", "importFromJSON"}

\* C1: every Task that createTask returns, every Task in the tasks of an
\* import result and every Task of the component's collection has an estimate
\* with 0 < optimistic <= nominal <= pessimistic in hours.
C1_TasksHaveOrderedEstimates ==
    /\ (ret.op = "createTask" /\ ~ret.created.thrown)
           => OrderedInHours(ret.created.task.estimate)
    /\ IsImport => \A i \in 1..Len(ret.result.tasks) :
                       OrderedInHours(ret.result.tasks[i].estimate)
    /\ \A i \in 1..Len(tasks) : OrderedInHours(tasks[i].estimate)

\* an import that rejected a row and still returned a task
C1_Witness ==
    /\ ret.op = "importFromCSV"
    /\ Len(ret.result.tasks) > 0
    /\ Len(ret.result.errors) > 0
    /\ OrderedInHours(ret.result.tasks[1].estimate)

DerivedFields == {"expectedDuration", "standardDeviation", "variance"}

\* C2: for an estimate that validateEstimate rejects, calculatePert throws and
\* returns none of the derived numbers, and createTask throws and returns no Task.
C2_InvalidEstimateThrows ==
    /\ (ret.op = "calculatePert" /\ ~validateEstimate(estimate))
           => /\ ret.calculation.thrown
              /\ DOMAIN ret.calculation \cap DerivedFields = {}
    /\ (ret.op = "createTask" /\ ~validateEstimate(estimate))
           => /\ ret.created.thrown
              /\ "task" \notin DOMAIN ret.created

\* createTask was called with an estimate out of order and threw
C2_Witness ==
    /\ ret.op = "createTask"
    /\ ~validateEstimate(estimate)
    /\ Gt(convertToHours(estimate.optimistic), convertToHours(estimate.nominal))
    /\ ret.created.thrown

\* C3: validateEstimate answers TRUE exactly when the three values, in hours,
\* are positive and optimistic <= nominal <= pessimistic; it always answers.
C3_ValidateEstimateIsOrderInHours ==
    ret.op = "validateEstimate"
        => /\ ret.valid \in BOOLEAN
           /\ ret.valid = OrderedInHours(estimate)

\* an equal triple written in different units (5 days, 1 week, 1 week) is accepted
C3_Witness ==
    /\ ret.op = "validateEstimate"
    /\ ret.valid
    /\ estimate.optimistic = [value |-> Num(5), unit |-> "days"]
    /\ estimate.nominal = [value |-> Num(1), unit |-> "weeks"]
    /\ estimate.pessimistic = [value |-> Num(1), unit |-> "weeks"]

\* C4: for a valid estimate with hour values O, N, P calculatePert returns
\* expectedDuration = (O + 4N + P) / 6, standardDeviation = (P - O) / 6 >= 0 and
\* variance = standardDeviation squared; with O = N = P the expected duration is
\* that value and deviation and variance are 0; for 2h, 4h, 12h it is 5.
C4_PertFormulas ==
    (ret.op = "calculatePert" /\ OrderedInHours(estimate))
        => LET O == InHours(estimate.optimistic)
               N == InHours(estimate.nominal)
               P == InHours(estimate.pessimistic)
               c == ret.calculation
           IN  /\ ~c.thrown
               /\ Mul(Num(6), c.expectedDuration) = Add(Add(O, P), Add(Add(N, N), Add(N, N)))
               /\ Add(Mul(Num(6), c.standardDeviation), O) = P
               /\ c.standardDeviation.k = "rat" /\ c.standardDeviation.n >= 0
               /\ c.variance = Mul(c.standardDeviation, c.standardDeviation)
               /\ (O = N /\ N = P)
                      => /\ c.expectedDuration = O
                         /\ c.standardDeviation = Num(0)
                         /\ c.variance = Num(0)
               /\ (O = Num(2) /\ N = Num(4) /\ P = Num(12)) => c.expectedDuration = Num(5)

\* calculatePert has run on 2 hours, 4 hours, 12 hours
C4_Witness ==
    /\ ret.op = "calculatePert"
    /\ estimate = [optimistic |-> Hours(2), nominal |-> Hours(4), pessimistic |-> Hours(12)]
    /\ ret.calculation.expectedDuration = Num(5)
    /\ ret.calculation.standardDeviation = Rat(5, 3)

RECURSIVE Total(_, _)
\* the sum of a field over a sequence of tasks
Total(ts, field) == IF ts = <<>> THEN Num(0) ELSE Add(Head(ts)[field], Total(Tail(ts), field))

\* the square of a number, a kept root included
Square(x) == IF x.k = "sqrt" THEN Rat(x.n, x.d) ELSE Mul(x, x)
NonNegative(x) == x.k = "sqrt" \/ (x.k = "rat" /\ x.n >= 0)

\* C5: the summary of the empty collection has three zero totals and no task;
\* otherwise the total expected duration and the total variance are the sums
\* over the tasks and the total standard deviation is the square root of the
\* total variance; for one task the totals are that task's three numbers.
C5_SummaryTotals ==
    LET s == projectSummary
    IN  /\ tasks = <<>>
            => /\ s.totalExpectedDuration = Num(0)
               /\ s.totalStandardDeviation = Num(0)
               /\ s.totalVariance = Num(0)
               /\ s.tasks = <<>>
        /\ tasks # <<>>
            => /\ s.totalExpectedDuration = Total(tasks, "expectedDuration")
               /\ s.totalVariance = Total(tasks, "variance")
               /\ NonNegative(s.totalStandardDeviation)
               /\ Square(s.totalStandardDeviation) = s.totalVariance
               /\ s.tasks = tasks
        /\ Len(tasks) = 1
            => /\ s.totalExpectedDuration = tasks[1].expectedDuration
               /\ s.totalStandardDeviation = tasks[1].standardDeviation
               /\ s.totalVariance = tasks[1].variance

\* two tasks whose standard deviations do not add up to the total
C5_Witness ==
    /\ Len(tasks) = 2
    /\ tasks[1].standardDeviation # Num(0)
    /\ tasks[2].standardDeviation # Num(0)
    /\ projectSummary.totalStandardDeviation
           # Total(tasks, "standardDeviation")
    /\ Square(projectSummary.totalStandardDeviation)
           = Add(tasks[1].variance, tasks[2].variance)

\* C6: in the result of importFromCSV and of importFromJSON, isValid is true
\* exactly when errors is empty.
C6_IsValidIffNoErrors ==
    IsImport => (ret.result.isValid <=> ret.result.errors = <<>>)

\* a partial success: tasks were accepted and the result is not valid
C6_Witness ==
    /\ ret.op = "importFromJSON"
    /\ ~ret.result.isValid
    /\ Len(ret.result.tasks) > 0
    /\ Len(ret.result.errors) > 0

\* the k-th smallest element of a set of numbers
Kth(S, k) == CHOOSE j \in S : Cardinality({x \in S : x < j}) = k - 1

\* what a task holds of the row or item it was made from
Content(t) == [name |-> t.name, estimate |-> t.estimate]

\* the result holds, in input order, one task for each of the n rows that
\* yields a task when processed alone and one error for each other row
Accumulates(n, Alone(_), result) ==
    LET good == {i \in 1..n : Alone(i).ok}
        bad == (1..n) \ good
    IN  /\ Len(result.tasks) + Len(result.errors) = n
        /\ Len(result.tasks) = Cardinality(good)
        /\ Len(result.errors) = Cardinality(bad)
        /\ \A k \in 1..Len(result.tasks) :
               Content(result.tasks[k]) = Content(Alone(Kth(good, k)).task)
        /\ \A k \in 1..Len(result.errors) :
               result.errors[k] = Alone(Kth(bad, k)).error

CsvLinesRead == TrimSplit(csvContent)
CsvRows == DataLines(CsvLinesRead)
CsvRowAlone(i) == ParseCsvRow(CsvRows[i], i - 1, 0)

JsonLoopEntered ==
    jsonContent.parses /\ (IsExportFormat(jsonContent.data) \/ jsonContent.data.type = "array")
JsonRowAlone(i) ==
    ParseJsonItem(jsonContent.data.items[i], i - 1, IsExportFormat(jsonContent.data), 0)

\* C7: once the loop over the rows (CSV) or items (JSON) is entered, every one
\* of them is processed whatever happened to the earlier ones and gives exactly
\* one task or exactly one error; tasks and errors are in input order.
C7_ImportAccumulates ==
    /\ (ret.op = "importFromCSV" /\ Len(CsvLinesRead) >= 2)
           => Accumulates(Len(CsvRows), CsvRowAlone, ret.result)
    /\ (ret.op = "importFromJSON" /\ JsonLoopEntered)
           => Accumulates(Len(jsonContent.data.items), JsonRowAlone, ret.result)

\* a row accepted after an earlier row was rejected, and one rejected after it
C7_Witness ==
    /\ ret.op = "importFromCSV"
    /\ csvContent = <<HeaderLine, ShortRow, GoodRow, BadOrderRow>>
    /\ Len(ret.result.tasks) = 1
    /\ ret.result.errors = <<RowError(0, InsufficientColumns), RowError(2, InvalidEstimates)>>

Catastrophic(result) ==
    /\ Len(result.errors) = 1
    /\ result.tasks = <<>>
    /\ ~result.isValid

\* parsed JSON that is neither an object with a version and a tasks array nor
\* an array
UnrecognisedShape(data) ==
    /\ ~(data.type = "object" /\ data.version.some /\ data.tasksKind = "array")
    /\ data.type # "array"

\* C8: a CSV text of fewer than 2 lines, a JSON text that does not parse and a
\* parsed JSON value of an unrecognised shape each give exactly one error, no
\* task and isValid = FALSE.
C8_CatastrophicInputGivesOneError ==
    /\ (ret.op = "importFromCSV" /\ Len(CsvLinesRead) < 2) => Catastrophic(ret.result)
    /\ (ret.op = "importFromJSON" /\ ~jsonContent.parses) => Catastrophic(ret.result)
    /\ (ret.op = "importFromJSON" /\ jsonContent.parses /\ UnrecognisedShape(jsonContent.data))
           => Catastrophic(ret.result)

\* the JSON text null
C8_Witness ==
    /\ ret.op = "importFromJSON"
    /\ jsonContent.parses
    /\ jsonContent.data.type = "null"
    /\ Catastrophic(ret.result)

RowMessages ==
    {InsufficientColumns, InvalidNumericValues, InvalidTimeUnits, InvalidEstimates, FailedToParse}

LineError(lineNumber, message) == "Row " \o ToString(lineNumber) \o ": " \o message

\* the 1-based number, among the lines read, of the i-th line after the header
LineNumber(i) == HeaderIndex(CsvLinesRead) + 1 + i

\* C9: every per-row error of importFromCSV carries the 1-based number of the
\* line of its row, whatever was skipped before the data.  (Fails: the number
\* reported is the position after the header plus 1.)
C9_RowErrorCarriesLineNumber ==
    (ret.op = "importFromCSV" /\ Len(CsvLinesRead) >= 2)
        => LET bad == {i \in 1..Len(CsvRows) : ~CsvRowAlone(i).ok}
           IN  \A k \in 1..Len(ret.result.errors) :
                   \E m \in RowMessages :
                       ret.result.errors[k] = LineError(LineNumber(Kth(bad, k)), m)

\* C10: the first line from the offset on that includes 'Task Name' is the
\* header and the lines after it are the rows; when no line includes it, the
\* rows are the lines from the offset on, the line at the offset included.
\* (Fails: the line at the offset is skipped like a header.)
C10_LineAtOffsetIsRow ==
    (ret.op = "importFromCSV" /\ Len(CsvLinesRead) >= 2)
        => LET startIndex == StartIndex(CsvLinesRead)
               found == HeaderCandidates(CsvLinesRead, startIndex)
               rows == Len(ret.result.tasks) + Len(ret.result.errors)
           IN  /\ found # {}
                   => \E h \in found :
                          /\ \A j \in found : h <= j
                          /\ rows = Len(CsvLinesRead) - (h + 1)
               /\ (found = {} /\ startIndex < Len(CsvLinesRead))
                   => rows = Len(CsvLinesRead) - startIndex

\* the importer has run on the text an exporter returned for the collection
Reimported(importer, exporter) ==
    mode = "export" /\ ret.op = importer /\ ret.source.op = exporter

\* C11: importFromJSON on the text exportToJSON returned for a collection of
\* tasks built by createTask (the empty collection and tasks without a name
\* included) returns isValid = TRUE, the project name that was exported and
\* the same tasks in the same order, with the same ids, names, estimates and
\* derived fields.
C11_JsonRoundTrip ==
    Reimported("importFromJSON", "exportToJSON")
        => /\ ret.result.isValid
           /\ ret.result.projectName = ret.source.projectName
           /\ Len(ret.result.tasks) = Len(tasks)
           /\ \A i \in 1..Len(tasks) :
                  /\ ret.result.tasks[i].id = tasks[i].id
                  /\ ret.result.tasks[i].name = tasks[i].name
                  /\ ret.result.tasks[i].estimate = tasks[i].estimate
                  /\ ret.result.tasks[i].expectedDuration = tasks[i].expectedDuration
                  /\ ret.result.tasks[i].standardDeviation = tasks[i].standardDeviation
                  /\ ret.result.tasks[i].variance = tasks[i].variance

\* a nameless task with a generated id and a task with the id t1 came back
C11_Witness ==
    /\ Reimported("importFromJSON", "exportToJSON")
    /\ Len(tasks) = 2
    /\ tasks[1].name = Undefined /\ tasks[1].id = randomUUID(1)
    /\ tasks[2].id = "t1"
    /\ ret.source.projectName = Some("Alpha")
    /\ ret.result.tasks = tasks

\* C12: importFromCSV on the text exportToCSV returned, with no project name,
\* for a collection of tasks built by createTask (the empty collection and
\* tasks without a name included) returns isValid = TRUE and as many tasks, in
\* the same order, with the names, estimates and derived fields of the
\* originals.  (Fails: the text of the empty collection is the header line
\* alone, which is rejected, and a task without a name comes back named
\* "Task N".)
C12_CsvRoundTrip ==
    (Reimported("importFromCSV", "exportToCSV") /\ ret.source.projectName = Undefined)
        => /\ ret.result.isValid
           /\ Len(ret.result.tasks) = Len(tasks)
           /\ \A i \in 1..Len(tasks) :
                  /\ ret.result.tasks[i].name = tasks[i].name
                  /\ ret.result.tasks[i].estimate = tasks[i].estimate
                  /\ ret.result.tasks[i].expectedDuration = tasks[i].expectedDuration
                  /\ ret.result.tasks[i].standardDeviation = tasks[i].standardDeviation
                  /\ ret.result.tasks[i].variance = tasks[i].variance

\* the items of the JSON text that give a task, and the item of the k-th task
JsonGoodItems == {i \in 1..Len(jsonContent.data.items) : JsonRowAlone(i).ok}
JsonItemOfTask(k) == jsonContent.data.items[Kth(JsonGoodItems, k)]

\* the identifiers crypto.randomUUID() has handed out
Generated == {randomUUID(j) : j \in 1..uuid}

\* the k-th task of the result has an identifier that was generated for it
FreshId(k) ==
    /\ ret.result.tasks[k].id \in Generated
    /\ \A j \in 1..Len(ret.result.tasks) :
           j # k => ret.result.tasks[j].id # ret.result.tasks[k].id

\* C13: importFromJSON gives the Task of an envelope item the id the item
\* supplies (a non-empty string) and a freshly generated id when the item has
\* no id or an empty one; every Task of a bare array gets a freshly generated
\* id, also when its item carries an id.
C13_JsonIds ==
    (ret.op = "importFromJSON" /\ JsonLoopEntered)
        => \A k \in 1..Len(ret.result.tasks) :
               IF IsExportFormat(jsonContent.data) /\ Truthy(JsonItemOfTask(k).id)
               THEN ret.result.tasks[k].id = JsonItemOfTask(k).id.v
               ELSE FreshId(k)

\* a bare array whose item carries the id t1 gave a task with a generated id
C13_Witness ==
    /\ ret.op = "importFromJSON"
    /\ jsonContent.parses /\ jsonContent.data.type = "array"
    /\ Len(ret.result.tasks) = 2
    /\ JsonItemOfTask(1).id = Some("t1")
    /\ ret.result.tasks[1].id = randomUUID(1)
    /\ ret.result.tasks[2].id = randomUUID(2)

\* an envelope whose items carry the id t1 and no id
C13_WitnessEnvelope ==
    /\ ret.op = "importFromJSON"
    /\ IsExportFormat(jsonContent.data)
    /\ Len(ret.result.tasks) = 2
    /\ ret.result.tasks[1].id = "t1"
    /\ ret.result.tasks[2].id = randomUUID(1)

\* a time value of an item is an object with a numeric value and a unit of
\* the four
WellFormedTimeValue(tv) == tv.present /\ tv.isNumber /\ tv.unit \in TimeUnit

\* the item is an object with an estimate of three such time values
WellFormedItem(item) ==
    /\ item.type = "object"
    /\ item.estimate.present
    /\ WellFormedTimeValue(item.estimate.optimistic)
    /\ WellFormedTimeValue(item.estimate.nominal)
    /\ WellFormedTimeValue(item.estimate.pessimistic)

ItemOrdered(item) ==
    OrderedInHours([optimistic |-> [value |-> item.estimate.optimistic.value,
                                    unit |-> item.estimate.optimistic.unit],
                    nominal |-> [value |-> item.estimate.nominal.value,
                                 unit |-> item.estimate.nominal.unit],
                    pessimistic |-> [value |-> item.estimate.pessimistic.value,
                                     unit |-> item.estimate.pessimistic.unit]])

\* the error of the i-th item, which is not well formed or not ordered
ItemError(i) ==
    "Task " \o ToString(i) \o ": "
        \o (IF WellFormedItem(jsonContent.data.items[i]) THEN "Invalid estimates"
            ELSE "Invalid task structure")

\* an envelope with the single item optimistic 5h, nominal 3h, pessimistic 8h
OutOfOrderEnvelope ==
    /\ IsExportFormat(jsonContent.data)
    /\ Len(jsonContent.data.items) = 1
    /\ WellFormedItem(jsonContent.data.items[1])
    /\ jsonContent.data.items[1].estimate.optimistic.value = Num(5)
    /\ jsonContent.data.items[1].estimate.nominal.value = Num(3)
    /\ jsonContent.data.items[1].estimate.pessimistic.value = Num(8)
    /\ jsonContent.data.items[1].estimate.optimistic.unit = "hours"
    /\ jsonContent.data.items[1].estimate.nominal.unit = "hours"
    /\ jsonContent.data.items[1].estimate.pessimistic.unit = "hours"

\* C14: in both shapes importFromJSON skips an item that is not an object with
\* an estimate of three time values (numeric value, unit of the four) with the
\* error "Invalid task structure", and a well-formed item whose estimate is
\* not ordered with the error "Invalid estimates"; every other item gives a
\* task.  An envelope with the single item 5h, 3h, 8h gives isValid = FALSE,
\* the one error "Task 1: Invalid estimates" and no task.
C14_JsonItemErrors ==
    (ret.op = "importFromJSON" /\ JsonLoopEntered)
        => LET n == Len(jsonContent.data.items)
               bad == {i \in 1..n : \/ ~WellFormedItem(jsonContent.data.items[i])
                                    \/ ~ItemOrdered(jsonContent.data.items[i])}
           IN  /\ Len(ret.result.errors) = Cardinality(bad)
               /\ Len(ret.result.tasks) = n - Cardinality(bad)
               /\ \A k \in 1..Len(ret.result.errors) :
                      ret.result.errors[k] = ItemError(Kth(bad, k))
               /\ OutOfOrderEnvelope
                      => /\ ~ret.result.isValid
                         /\ ret.result.errors = <<"Task 1: Invalid estimates">>
                         /\ ret.result.tasks = <<>>

\* the envelope with the single item 5h, 3h, 8h has been imported
C14_Witness ==
    /\ ret.op = "importFromJSON"
    /\ jsonContent.parses
    /\ OutOfOrderEnvelope
    /\ ret.result.errors = <<"Task 1: Invalid estimates">>

\* a bare array with an item without estimate and an item out of order
C14_WitnessBoth ==
    /\ ret.op = "importFromJSON"
    /\ jsonContent.parses /\ jsonContent.data.type = "array"
    /\ ret.result.errors = <<"Task 1: Invalid task structure", "Task 3: Invalid estimates">>
    /\ Len(ret.result.tasks) = 1

\* C15: in the component the ids of the tasks of the task collection are
\* pairwise distinct, whatever was added, removed, cleared and imported.
\* (Fails: a JSON envelope keeps the ids of its items, so importing a file
\* after a file with the same id, with the append choice, gives two tasks
\* with one id.)
C15_TaskIdsDistinct ==
    mode \in Component
        => \A i \in 1..Len(tasks) : \A j \in 1..Len(tasks) :
               i # j => tasks[i].id # tasks[j].id

----------------------------------------------------------------------------
(* The exporters and the clock                                             *)

\* the step is a call of the exporter that repeats the call before it: the
\* same exporter on the same tasks, summary and project name
RepeatedCall(op) == ret'.op = op /\ ret'.repeated /\ ret.op = op

\* the JSON text apart from its exportedAt, the Markdown text apart from its
\* line "Generated on"
WithoutExportedAt(content) == [content EXCEPT !.data.exportedAt = Undefined]
WithoutGeneratedOn(text) == [text EXCEPT !.generatedOn = ""]

\* C16 as stated: two calls of exportToCSV, exportToMarkdown or exportToJSON
\* with equal tasks, summary and project name return identical text whenever
\* they are made, and no call changes the tasks or the summary.  (Fails: the
\* JSON text holds exportedAt and the Markdown text the line "Generated on",
\* both read from the clock at the call.)
C16_ExportersPure ==
    [][/\ RepeatedCall("exportToCSV") => csvContent' = csvContent
       /\ RepeatedCall("exportToMarkdown") => ret'.text = ret.text
       /\ RepeatedCall("exportToJSON") => jsonContent' = jsonContent
       /\ ret'.op \in ExportOps => tasks' = tasks]_vars

\* C16, amended: two calls with equal tasks, summary and project name return
\* identical text from exportToCSV, and from exportToJSON and
\* exportToMarkdown text that is identical apart from exportedAt and the
\* line "Generated on"; no call changes the tasks or the summary.
C16_ExportersPureApartFromClock ==
    [][/\ RepeatedCall("exportToCSV") => csvContent' = csvContent
       /\ RepeatedCall("exportToMarkdown")
              => WithoutGeneratedOn(ret'.text) = WithoutGeneratedOn(ret.text)
       /\ RepeatedCall("exportToJSON")
              => WithoutExportedAt(jsonContent') = WithoutExportedAt(jsonContent)
       /\ ret'.op \in ExportOps
              => /\ tasks' = tasks
                 /\ calculateProjectSummary(tasks') = calculateProjectSummary(tasks)]_vars

\* exportToJSON was called again, later, on a collection of two tasks
C16_Witness ==
    /\ mode = "export" /\ ret.op = "exportToJSON" /\ ret.repeated
    /\ Len(tasks) = 2
    /\ jsonContent.data.exportedAt = Some(toISOString(1))

\* exportToMarkdown was called again, later, without a project name
C16_WitnessMarkdown ==
    /\ mode = "export" /\ ret.op = "exportToMarkdown" /\ ret.repeated
    /\ ret.projectName = Undefined
    /\ Len(tasks) > 0
    /\ ret.text.generatedOn = toLocaleString(1)

----------------------------------------------------------------------------
(* The checks of a CSV row                                                 *)

IsNumberText(text) == \E p \in NumberTexts : p[1] = text
UnitTexts == {"minutes", "hours", "days", "weeks"}

\* the hours of the magnitude and unit at the tokens k and k + 1 of a row
\* whose magnitudes are numbers and whose units are units
TokenHours(line, k) == Mul(parseFloat(line[k]), TIME_UNIT_TO_HOURS[line[k + 1]])

\* the rule of the validator on the three magnitudes of the row, in hours
RowInOrder(line) ==
    /\ Gt(TokenHours(line, 2), Num(0))
    /\ Le(TokenHours(line, 2), TokenHours(line, 4))
    /\ Le(TokenHours(line, 4), TokenHours(line, 6))

\* the message of the first check the row fails, "" when it passes all four
FirstFailure(line) ==
    IF Len(line) < 9 THEN InsufficientColumns
    ELSE IF \E k \in {2, 4, 6} : ~IsNumberText(line[k]) THEN InvalidNumericValues
    ELSE IF \E k \in {3, 5, 7} : line[k] \notin UnitTexts THEN InvalidTimeUnits
    ELSE IF ~RowInOrder(line) THEN InvalidEstimates
    ELSE ""

FailingRows == {i \in 1..Len(CsvRows) : FirstFailure(CsvRows[i]) # ""}

\* the k-th error is the error of the k-th failing row, for its first failure
ErrorOfFailingRow(k, i) == ret.result.errors[k] = RowError(i - 1, FirstFailure(CsvRows[i]))

\* C17: importFromCSV checks each data row in the order: fewer than 9
\* tokens, a magnitude that is no number, a unit outside minutes, hours,
\* days, weeks, the rule of the validator.  A failing row records exactly one
\* error, for the first check it fails, and adds no task; a row of 5 columns
\* gives one "Insufficient columns" error and no task.
C17_CsvCheckOrder ==
    (ret.op = "importFromCSV" /\ Len(CsvLinesRead) >= 2)
        => /\ Len(ret.result.errors) = Cardinality(FailingRows)
           /\ Len(ret.result.tasks) = Len(CsvRows) - Cardinality(FailingRows)
           /\ \A k \in 1..Len(ret.result.errors) : ErrorOfFailingRow(k, Kth(FailingRows, k))

\* one row for each check, each failing a later check as well, and the row of
\* 5 columns alone
C17_Witness ==
    /\ mode = "csv" /\ ret.op = "importFromCSV"
    /\ csvContent = <<HeaderLine, ShortRow, NonNumericRow, BadUnitRow>>
    /\ ret.result.tasks = <<>>
    /\ ret.result.errors = <<RowError(0, InsufficientColumns),
                             RowError(1, InvalidNumericValues),
                             RowError(2, InvalidTimeUnits)>>

C17_WitnessFiveColumns ==
    /\ mode = "csv" /\ ret.op = "importFromCSV"
    /\ csvContent = <<HeaderLine, ShortRow>>
    /\ Len(ShortRow) = 5
    /\ ret.result.tasks = <<>>
    /\ ret.result.errors = <<RowError(0, InsufficientColumns)>>

----------------------------------------------------------------------------
(* The project-name line of a CSV text                                     *)

\* the lines of the text from the n-th on (counted from 1) that include
\* 'Task Name', and the first of them
HeadersFrom(lines, n) == {i \in n..Len(lines) : IncludesTaskName(lines[i])}
FirstHeaderFrom(lines, n) == Kth(HeadersFrom(lines, n), 1)

\* the names and estimates of a sequence of tasks
Contents(ts) == [i \in 1..Len(ts) |-> Content(ts[i])]

SameOutcome(result, acc) ==
    /\ result.errors = acc.errors
    /\ Contents(result.tasks) = Contents(acc.tasks)

\* the rows the import processed are exactly the lines after the h-th
ProcessedAfter(lines, h) ==
    SameOutcome(ret.result, forEachDataLine(SubSeq(lines, h + 1, Len(lines)), 0, NoneYet(0)))

C18_WitnessNoMatch ==
    /\ mode = "csv" /\ ret.op = "importFromCSV"
    /\ csvContent = <<NamelessProjectLine, HeaderLine, GoodRow, MixedRow>>
    /\ ret.result.projectName = Undefined
    /\ Len(ret.result.tasks) = 2

----------------------------------------------------------------------------
(* The derived fields of imported tasks                                    *)

\* the derived fields of the task are the PERT formulas of its own estimate:
\* with O, N, P the estimate in hours, 6 * expectedDuration = O + 4N + P,
\* 6 * standardDeviation = P - O and variance = standardDeviation squared
DerivedFromOwnEstimate(t) ==
    /\ Mul(Num(6), t.expectedDuration)
           = Add(Add(InHours(t.estimate.optimistic), InHours(t.estimate.pessimistic)),
                 Mul(Num(4), InHours(t.estimate.nominal)))
    /\ Add(Mul(Num(6), t.standardDeviation), InHours(t.estimate.optimistic))
           = InHours(t.estimate.pessimistic)
    /\ t.variance = Mul(t.standardDeviation, t.standardDeviation)

\* C19: every Task importFromCSV or importFromJSON returns has the
\* expectedDuration, standardDeviation and variance of the PERT formulas
\* applied to its own estimate, whatever derived values the row (columns 8
\* and 9) or the item (its expectedDuration, standardDeviation and variance
\* fields) carried.
C19_DerivedRecomputed ==
    IsImport => \A i \in 1..Len(ret.result.tasks) : DerivedFromOwnEstimate(ret.result.tasks[i])

\* an item that carries 12, 0 and 5 for the estimate 1h, 2h, 3h came back
\* with 2, 1/3 and 1/9
C19_Witness ==
    /\ mode = "json" /\ ret.op = "importFromJSON"
    /\ Len(jsonContent.data.items) = 1
    /\ jsonContent.data.items[1].derived = Derived(Num(12), Num(0), Num(5))
    /\ Len(ret.result.tasks) = 1
    /\ ret.result.tasks[1].expectedDuration = Num(2)
    /\ ret.result.tasks[1].standardDeviation = Rat(1, 3)
    /\ ret.result.tasks[1].variance = Rat(1, 9)

\* a row that carries 0.00 in columns 8 and 9 came back with 2 and 1/3
C19_WitnessCsv ==
    /\ mode = "csv" /\ ret.op = "importFromCSV"
    /\ csvContent = <<HeaderLine, GoodRow>>
    /\ GoodRow[8] = "0.00" /\ GoodRow[9] = "0.00"
    /\ Len(ret.result.tasks) = 1
    /\ ret.result.tasks[1].expectedDuration = Num(2)
    /\ ret.result.tasks[1].standardDeviation = Rat(1, 3)

----------------------------------------------------------------------------
(* Imports the component rejects                                           *)

\* the step ends with the record of a call of the handler that got no valid
\* result: only that call writes the record
Rejected(op) == ret'.op = op /\ ~ret'.valid

\* C20: handleImportFile on a file whose result has isValid = FALSE (or whose
\* extension is not supported) leaves the tasks and the project name as they
\* were, sets importError and leaves importSuccess FALSE, whatever tasks the
\* result holds; handleProjectImportFile on such a file saves no project and
\* leaves the project list, the current project, the tasks and the project
\* name as they were.
C20_ImportAllOrNothing ==
    [][/\ Rejected("handleImportFile")
              => /\ tasks' = tasks /\ projectName' = projectName
                 /\ localStorage' = localStorage
                 /\ importError' # "" /\ ~importSuccess'
       /\ Rejected("handleProjectImportFile")
              => /\ localStorage' = localStorage /\ savedProjects' = savedProjects
                 /\ currentProjectId' = currentProjectId
                 /\ tasks' = tasks /\ projectName' = projectName
                 /\ projectImportError' # "" /\ ~projectImportSuccess']_vars

\* a CSV file with a good row and a row out of order was rejected while the
\* collection held a task
C20_Witness ==
    /\ mode \in {"ui", "projects"}
    /\ ret.op = "handleImportFile" /\ ~ret.valid
    /\ importError = RowError(1, InvalidEstimates)
    /\ ~importSuccess
    /\ Len(tasks) = 1

\* a JSON file with a good item and an item out of order was rejected as a
\* project while an imported project was current
C20_WitnessProject ==
    /\ mode = "projects"
    /\ ret.op = "handleProjectImportFile" /\ ~ret.valid
    /\ projectImportError = TaskError(1, InvalidEstimatesJson)
    /\ ~projectImportSuccess
    /\ currentProjectId # "" /\ Len(localStorage) = 1

----------------------------------------------------------------------------
(* The current project and the store                                       *)

\* currentProjectId is empty or the id of a stored project
CurrentIsStored == currentProjectId = "" \/ FindIndex(localStorage, currentProjectId) # 0

\* the step takes the current project out of the store: only the 'delete'
\* action on the current project does
CurrentDeleted ==
    /\ currentProjectId # ""
    /\ FindIndex(localStorage, currentProjectId) # 0
    /\ FindIndex(localStorage', currentProjectId) = 0

\* C21: in a session of the component (save current project, load, rename,
\* duplicate, delete, project import, task edits, typing a project name),
\* currentProjectId is always empty or the id of a project in the store, and
\* the step that deletes the current project leaves currentProjectId and the
\* project name empty and the task collection without tasks.
C21_CurrentProjectStored ==
    /\ [](CurrentIsStored)
    /\ [][CurrentDeleted =>
             currentProjectId' = "" /\ projectName' = "" /\ tasks' = <<>>]_vars

\* a project was saved with a task, duplicated, and then deleted while it was
\* current: the copy is stored with the task, nothing is current, the name is
\* empty and there are no tasks (a project that is stored was made current
\* when it or its original was created, and only the deletion of the current
\* project empties currentProjectId)
C21_Witness ==
    /\ mode = "projects"
    /\ Len(localStorage) = 1 /\ localStorage[1].name = "Beta (Copy)"
    /\ Len(localStorage[1].tasks) = 1
    /\ currentProjectId = "" /\ projectName = "" /\ tasks = <<>>

\* the second of two stored projects is the current one
C21_WitnessCurrent ==
    /\ mode = "projects"
    /\ Len(localStorage) = 2
    /\ currentProjectId = localStorage[2].id
    /\ localStorage[1].id # localStorage[2].id

----------------------------------------------------------------------------
(* Auto-save                                                               *)

\* the step changes the task collection or the project name
Changed == tasks' # tasks \/ projectName' # projectName

\* after the step, the project stored at i carries the name and the tasks of
\* the component and the time of the step as updatedAt
SavedAt(i) ==
    /\ localStorage'[i].id = currentProjectId'
    /\ localStorage'[i].name = projectName'
    /\ localStorage'[i].tasks = tasks'
    /\ localStorage'[i].updatedAt = toISOString(now)

\* the project stored at i before the step is stored at i after it, with the
\* id and the createdAt it had
KeptAt(i) ==
    /\ localStorage'[i].id = localStorage[i].id
    /\ localStorage'[i].createdAt = localStorage[i].createdAt

\* C22: the conditions are those the watcher finds when it runs, after the
\* change. A step that changes the task collection or the project name (add,
\* remove, clear, import, load, save, rename, typing a name) and ends with a
\* current project and a project name leaves that project stored with the
\* name and the tasks of the component and a fresh updatedAt, and, if it was
\* stored before the step, at its place with its id and createdAt; a step
\* that changes them and ends without a current project or without a project
\* name leaves the store as it was, or, when it is the deletion of the
\* current project, as deleteProject left it.
C22_AutoSave ==
    [][Changed =>
         IF currentProjectId' # "" /\ projectName' # ""
         THEN /\ FindIndex(localStorage', currentProjectId') # 0
              /\ SavedAt(FindIndex(localStorage', currentProjectId'))
              /\ FindIndex(localStorage, currentProjectId') # 0
                    => /\ FindIndex(localStorage', currentProjectId')
                            = FindIndex(localStorage, currentProjectId')
                       /\ KeptAt(FindIndex(localStorage, currentProjectId'))
         ELSE IF CurrentDeleted
         THEN localStorage' = deleteProject(localStorage, currentProjectId)
         ELSE localStorage' = localStorage]_vars

\* a project was saved without tasks, the clock advanced and a task was
\* added: the stored project holds that task, its createdAt is the time of
\* the saving and its updatedAt the time of the addition
C22_Witness ==
    /\ mode = "projects"
    /\ currentProjectId = "uuid-1" /\ projectName = "Beta"
    /\ Len(localStorage) = 1 /\ localStorage[1].id = "uuid-1"
    /\ Len(tasks) = 1 /\ tasks[1].id = "uuid-2"
    /\ localStorage[1].tasks = tasks /\ localStorage[1].name = "Beta"
    /\ localStorage[1].createdAt = toISOString(0)
    /\ localStorage[1].updatedAt = toISOString(1)

\* the name of the current project was cleared and a task was added: the
\* stored project has its name and no task
C22_WitnessUnnamed ==
    /\ mode = "projects"
    /\ currentProjectId = "uuid-1" /\ projectName = ""
    /\ Len(localStorage) = 1 /\ localStorage[1].id = "uuid-1"
    /\ localStorage[1].name = "Beta" /\ localStorage[1].tasks = <<>>
    /\ Len(tasks) = 1 /\ tasks[1].id = "uuid-2"

\* a task was added while no project was current: nothing is stored
C22_WitnessNoProject ==
    /\ mode = "projects"
    /\ currentProjectId = "" /\ projectName = "Beta"
    /\ Len(tasks) = 1 /\ localStorage = <<>>

====
